---- MODULE Spec2Model ----
(***************************************************************************)
(* Intent-driven orchestration middleware: the intent ledger and its state *)
(* machine, the HookEngine pipeline around one tool call, the trace ledger *)
(* and the mutation classifier.  Strings the code inspects character by    *)
(* character (paths, scope patterns) are sequences of one-character        *)
(* strings; source lines are sequences of lexical tokens.                  *)
(***************************************************************************)
EXTENDS Integers, Sequences, FiniteSets, TLC

VARIABLES ledger, trace, traceFileExists, git, preHooks, postHooks, inv, locks,
          calls, lastOp

vars == <<ledger, trace, traceFileExists, git, preHooks, postHooks, inv, locks,
          calls, lastOp>>

(* ------------------------------ bounds --------------------------------- *)

MaxCalls == 1

MaxHooks == 1

MaxConcurrentCalls == 2

MaxRegistrations == 2

MaxAppends == 2

(* --------------------------- generic helpers --------------------------- *)

StartsWith(s, pre) ==
    /\ Len(pre) <= Len(s)
    /\ SubSeq(s, 1, Len(pre)) = pre

EndsWith(s, suf) ==
    /\ Len(suf) <= Len(s)
    /\ SubSeq(s, Len(s) - Len(suf) + 1, Len(s)) = suf

Range(s) == {s[i] : i \in DOMAIN s}

(* ------------------------- path.resolve (node) ------------------------- *)

RECURSIVE SplitAcc(_, _, _, _)
SplitAcc(s, sep, cur, acc) ==
    IF s = <<>> THEN Append(acc, cur)
    ELSE IF s[1] = sep THEN SplitAcc(Tail(s), sep, <<>>, Append(acc, cur))
    ELSE SplitAcc(Tail(s), sep, Append(cur, s[1]), acc)

Split(s, sep) == SplitAcc(s, sep, <<>>, <<>>)

RECURSIVE NormalizeSegs(_, _)
NormalizeSegs(segs, acc) ==
    IF segs = <<>> THEN acc
    ELSE IF segs[1] = <<>> \/ segs[1] = <<".">> THEN NormalizeSegs(Tail(segs), acc)
    ELSE IF segs[1] = <<".", ".">>
         THEN NormalizeSegs(Tail(segs),
                            IF acc = <<>> THEN acc ELSE SubSeq(acc, 1, Len(acc) - 1))
    ELSE NormalizeSegs(Tail(segs), Append(acc, segs[1]))

RECURSIVE JoinSegs(_)
JoinSegs(segs) ==
    IF segs = <<>> THEN <<>>
    ELSE <<"/">> \o segs[1] \o JoinSegs(Tail(segs))

PathResolve(root, p) ==
    LET base == IF p # <<>> /\ p[1] = "/" THEN p ELSE root \o <<"/">> \o p
        segs == NormalizeSegs(Split(base, "/"), <<>>)
    IN IF segs = <<>> THEN <<"/">> ELSE JoinSegs(segs)

WorkspaceRoot == <<"/", "w">>

(* ------------------------ paths and scope patterns --------------------- *)

NoPath == <<>>

PathAF == <<"a", "/", "f">>

PathAXF == <<"a", "x", "/", "f">>

PathUF == <<"u", "/", "f">>

PathDotDot == <<"a", "/", ".", ".", "/", "u", "/", "f">>

FilePaths == {NoPath, PathAF, PathAXF, PathUF, PathDotDot}

GlobA == <<"a", "/", "*", "*">>

GlobU == <<"u", "/", "*", "*">>

GlobD(k) == <<"d", ToString(k), "/", "*", "*">>

(* ---------------------- mutation classifier (astDiff) ------------------ *)
(* A line is a sequence of lexical tokens.  Word tokens stand for \w+      *)
(* runs; two adjacent tokens are separated by one space except that "("   *)
(* attaches directly to the token before it; "ws" is leading or trailing  *)
(* whitespace of the raw line.                                            *)

MutationClasses ==
    {"ADD_FUNCTION", "MODIFY_FUNCTION", "DELETE_FUNCTION",
     "ADD_CLASS", "MODIFY_CLASS", "DELETE_CLASS",
     "ADD_IMPORT", "MODIFY_IMPORT", "DELETE_IMPORT",
     "ADD_EXPORT", "DELETE_EXPORT", "REFACTOR_BLOCK",
     "ADD_TYPE", "MODIFY_TYPE"}

IsWord(t) ==
    t \in {"export", "async", "function", "const", "let", "class", "import",
           "from", "type", "interface", "default", "id", "num"}

OptSet(l, kw) == {l} \cup (IF l # <<>> /\ l[1] = kw THEN {Tail(l)} ELSE {})

FunctionPat(l) ==
    \E r1 \in OptSet(l, "export") : \E r2 \in OptSet(r1, "async") :
        Len(r2) >= 2 /\ r2[1] = "function" /\ IsWord(r2[2])

ArrowPat(l) ==
    \E r1 \in OptSet(l, "export") :
        /\ Len(r1) >= 3
        /\ r1[1] \in {"const", "let"}
        /\ IsWord(r1[2])
        /\ r1[3] = "="
        /\ \E r2 \in OptSet(SubSeq(r1, 4, Len(r1)), "async") :
              /\ r2 # <<>>
              /\ r2[1] = "("
              /\ \E j \in 2..(Len(r2) - 1) : r2[j] = ")" /\ r2[j + 1] = "=>"

MethodPat(l) ==
    \E r \in OptSet(l, "async") :
        /\ Len(r) >= 2
        /\ IsWord(r[1])
        /\ r[2] = "("
        /\ \E j \in 3..(Len(r) - 2) :
              r[j] = ")" /\ r[j + 1] = ":" /\ IsWord(r[j + 2])

ClassPat(l) ==
    \E r \in OptSet(l, "export") : Len(r) >= 2 /\ r[1] = "class" /\ IsWord(r[2])

ImportPat(l) ==
    /\ Len(l) >= 4
    /\ l[1] = "import"
    /\ \E j \in 3..(Len(l) - 1) : l[j] = "from" /\ l[j + 1] = "str"

ExportPat(l) ==
    /\ Len(l) >= 3
    /\ l[1] = "export"
    /\ l[2] \in {"default", "type", "const", "function", "class"}
    /\ l[3] # "("

TypeAliasPat(l) ==
    \E r \in OptSet(l, "export") :
        Len(r) >= 3 /\ r[1] = "type" /\ IsWord(r[2]) /\ r[3] = "="

InterfacePat(l) ==
    \E r \in OptSet(l, "export") : Len(r) >= 2 /\ r[1] = "interface" /\ IsWord(r[2])

RECURSIVE TrimLeft(_)
TrimLeft(l) == IF l # <<>> /\ l[1] = "ws" THEN TrimLeft(Tail(l)) ELSE l

RECURSIVE TrimRight(_)
TrimRight(l) ==
    IF l # <<>> /\ l[Len(l)] = "ws" THEN TrimRight(SubSeq(l, 1, Len(l) - 1)) ELSE l

(* trimStart() in place of trim() *)
Trim_leftOnly(l) == TrimLeft(l)

Trim(l) == TrimRight(TrimLeft(l))

LineSet(content) == {Trim(content[i]) : i \in DOMAIN content} \ {<<>>}

diffLines(before, after) ==
    [added   |-> LineSet(after) \ LineSet(before),
     removed |-> LineSet(before) \ LineSet(after)]

classifyLines(lines, isAdded) ==
    (IF \E l \in lines : FunctionPat(l) \/ ArrowPat(l) \/ MethodPat(l)
       THEN {IF isAdded THEN "ADD_FUNCTION" ELSE "DELETE_FUNCTION"} ELSE {})
    \cup (IF \E l \in lines : ClassPat(l)
       THEN {IF isAdded THEN "ADD_CLASS" ELSE "DELETE_CLASS"} ELSE {})
    \cup (IF \E l \in lines : ImportPat(l)
       THEN {IF isAdded THEN "ADD_IMPORT" ELSE "DELETE_IMPORT"} ELSE {})
    \cup (IF \E l \in lines : ExportPat(l)
       THEN {IF isAdded THEN "ADD_EXPORT" ELSE "DELETE_EXPORT"} ELSE {})
    \cup (IF \E l \in lines : TypeAliasPat(l) \/ InterfacePat(l)
       THEN {IF isAdded THEN "ADD_TYPE" ELSE "MODIFY_TYPE"} ELSE {})

(* an upgrade that leaves the ADD class in the set *)
Collapse_keepsAdd(m, add, del, mod) ==
    IF add \in m /\ del \in m THEN (m \ {del}) \cup {mod} ELSE m

Collapse(m, add, del, mod) ==
    IF add \in m /\ del \in m THEN (m \ {add, del}) \cup {mod} ELSE m

(* a classifier that marks every non-empty diff as a refactoring too *)
classifyMutation_alwaysRefactor(before, after) ==
    LET d  == diffLines(before, after)
        m0 == classifyLines(d.added, TRUE) \cup classifyLines(d.removed, FALSE)
        m1 == Collapse(m0, "ADD_FUNCTION", "DELETE_FUNCTION", "MODIFY_FUNCTION")
        m2 == Collapse(m1, "ADD_CLASS", "DELETE_CLASS", "MODIFY_CLASS")
        m3 == Collapse(m2, "ADD_IMPORT", "DELETE_IMPORT", "MODIFY_IMPORT")
    IN IF d.added # {} \/ d.removed # {}
       THEN m3 \cup {"REFACTOR_BLOCK"} ELSE m3

classifyMutation(before, after) ==
    LET d  == diffLines(before, after)
        m0 == classifyLines(d.added, TRUE) \cup classifyLines(d.removed, FALSE)
        m1 == Collapse(m0, "ADD_FUNCTION", "DELETE_FUNCTION", "MODIFY_FUNCTION")
        m2 == Collapse(m1, "ADD_CLASS", "DELETE_CLASS", "MODIFY_CLASS")
        m3 == Collapse(m2, "ADD_IMPORT", "DELETE_IMPORT", "MODIFY_IMPORT")
    IN IF m3 = {} /\ (d.added # {} \/ d.removed # {})
       THEN {"REFACTOR_BLOCK"} ELSE m3

(* file contents carried in payloads: sequences of raw lines *)

EmptyContent == << <<>> >>

ExportFnContent == << <<"export", "function", "id", "(", ")", "{", "}">>, <<>> >>

LetContent == << <<"ws", "let", "id", "=", "num">> >>

(* an optional payload field: <<>> when absent, <<v>> when present *)
Absent == <<>>

Some(v) == <<v>>

(* ----------------------------- intent ledger --------------------------- *)

VALID_STATUSES == {"PENDING", "IN_PROGRESS", "COMPLETED", "LOCKED"}

(* what the status field of an entry of active_intents.yaml can hold:     *)
(* a legal status, nothing ("NONE") or some other string ("BOGUS")        *)
RawStatuses == VALID_STATUSES \cup {"NONE", "BOGUS"}

LedgerOrder == <<"I1", "I2">>

Intents == Range(LedgerOrder)

UnknownId == "I9"

MAX_SCOPE_ENTRIES == 10

MAX_CONSTRAINTS == 20

MAX_CRITERIA == 15

OwnedScope(id) ==
    IF id = "I1" THEN <<GlobA>>
    ELSE [k \in 1..(MAX_SCOPE_ENTRIES + 1) |->
             IF k = 1 THEN GlobU
             ELSE IF k = MAX_SCOPE_ENTRIES + 1 THEN GlobA
             ELSE GlobD(k)]

ConstraintKeys(id) ==
    IF id = "I1" THEN <<1, 2>> ELSE [k \in 1..(MAX_CONSTRAINTS + 1) |-> k]

AcceptanceCriteria(id) ==
    IF id = "I1" THEN <<1>> ELSE [k \in 1..(MAX_CRITERIA + 1) |-> k]

(* a table that lets a COMPLETED intent be reopened *)
ALLOWED_TRANSITIONS_reopen(from) ==
    CASE from = "PENDING"     -> {"IN_PROGRESS"}
      [] from = "IN_PROGRESS" -> {"COMPLETED", "LOCKED"}
      [] from = "COMPLETED"   -> {"IN_PROGRESS"}
      [] from = "LOCKED"      -> {}

ALLOWED_TRANSITIONS(from) ==
    CASE from = "PENDING"     -> {"IN_PROGRESS"}
      [] from = "IN_PROGRESS" -> {"COMPLETED", "LOCKED"}
      [] from = "COMPLETED"   -> {}
      [] from = "LOCKED"      -> {}

(* a load that defaults only a missing status *)
NormStatus_passThrough(raw) == IF raw = "NONE" THEN "PENDING" ELSE raw

(* IntentLoader.loadIntents: status normalised on load *)
NormStatus(raw) == IF raw \in VALID_STATUSES THEN raw ELSE "PENDING"

loadIntents(L) ==
    [k \in DOMAIN LedgerOrder |->
        [id                  |-> LedgerOrder[k],
         status              |-> NormStatus(L[LedgerOrder[k]]),
         owned_scope         |-> OwnedScope(LedgerOrder[k]),
         constraints         |-> ConstraintKeys(LedgerOrder[k]),
         acceptance_criteria |-> AcceptanceCriteria(LedgerOrder[k])]]

getWorkableIntents(L) ==
    SelectSeq(loadIntents(L),
              LAMBDA it : it.status = "PENDING" \/ it.status = "IN_PROGRESS")

IdsWithStatus(its) == [k \in DOMAIN its |-> <<its[k].id, its[k].status>>]

Err(text, args) == [text |-> text, args |-> args]

(* a not-found error that lists every intent of the ledger *)
loadIntent_listsAll(L, intentId) ==
    LET intents == loadIntents(L)
    IN IF \E k \in DOMAIN intents : intents[k].id = intentId
       THEN [ok     |-> TRUE,
             intent |-> intents[CHOOSE k \in DOMAIN intents : intents[k].id = intentId]]
       ELSE [ok    |-> FALSE,
             error |-> Err("IntentNotFound", <<intentId, IdsWithStatus(intents)>>)]

(* IntentLoader.loadIntent *)
loadIntent(L, intentId) ==
    LET intents == loadIntents(L)
    IN IF \E k \in DOMAIN intents : intents[k].id = intentId
       THEN [ok     |-> TRUE,
             intent |-> intents[CHOOSE k \in DOMAIN intents : intents[k].id = intentId]]
       ELSE [ok    |-> FALSE,
             error |-> Err("IntentNotFound",
                           <<intentId, IdsWithStatus(getWorkableIntents(L))>>)]

(* intentStatusManager.getIntentStatus: only a missing field defaults *)
getIntentStatus(L, intentId) == IF L[intentId] = "NONE" THEN "PENDING" ELSE L[intentId]

(* a transitionStatus that does not consult the table *)
transitionOutcome_noTable(L, intentId, to) ==
    IF intentId \notin Intents THEN "NotFound" ELSE "ok"

(* outcome of transitionStatus(intentId, to) on ledger L *)
transitionOutcome(L, intentId, to) ==
    IF intentId \notin Intents THEN "NotFound"
    ELSE LET from == getIntentStatus(L, intentId)
         IN IF from \notin VALID_STATUSES THEN "TypeError"
            ELSE IF to \notin ALLOWED_TRANSITIONS(from) THEN "IllegalTransition"
            ELSE "ok"

(* intentTools.getActiveIntents: the same normalisation on load *)
getActiveIntents(L) ==
    [k \in DOMAIN LedgerOrder |->
        [id                  |-> LedgerOrder[k],
         status              |-> IF L[LedgerOrder[k]] \in VALID_STATUSES
                                 THEN L[LedgerOrder[k]] ELSE "PENDING",
         owned_scope         |-> OwnedScope(LedgerOrder[k]),
         constraints         |-> ConstraintKeys(LedgerOrder[k]),
         acceptance_criteria |-> AcceptanceCriteria(LedgerOrder[k])]]

NoError == Err("", <<>>)

(* intentStatusManager.guardIntent: the status, or the error thrown *)
guardIntent(L, intentId, availableIds) ==
    IF intentId \notin Intents
    THEN [ok |-> FALSE, status |-> "",
          error |-> Err("IntentNotFound",
                        <<intentId,
                          SelectSeq(availableIds,
                                    LAMBDA id : /\ id \in Intents
                                                /\ getIntentStatus(L, id)
                                                      \in {"PENDING", "IN_PROGRESS"})>>)]
    ELSE LET status == getIntentStatus(L, intentId)
         IN IF status = "COMPLETED"
            THEN [ok |-> FALSE, status |-> "", error |-> Err("IntentCompleted", <<intentId>>)]
            ELSE IF status = "LOCKED"
            THEN [ok |-> FALSE, status |-> "", error |-> Err("IntentLocked", <<intentId>>)]
            ELSE [ok |-> TRUE, status |-> status, error |-> NoError]

NoOp == [op |-> "none", id |-> "", to |-> "", from |-> "", outcome |-> "",
         returned |-> "", error |-> NoError,
         before |-> [id \in Intents |-> "NONE"]]

(* ------------------------------ trace ledger --------------------------- *)

(* git: what `git rev-parse HEAD` gives, a commit id or a failure *)
GitUnavailable == "git-rev-parse-failed"

Revisions == {"abc123", GitUnavailable}

getCurrentGitSHA == IF git = GitUnavailable THEN "unknown" ELSE git

(* new TraceLogger() writes an empty file over an existing one *)
TraceLogger_overwrites(exists, content) == <<>>

(* new TraceLogger(): agent_trace.jsonl is created empty unless it exists *)
TraceLogger(exists, content) == IF exists THEN content ELSE <<>>

FileEntry(filePath, classes, notes) ==
    [relativePath    |-> filePath,
     mutationClasses |-> classes,
     ranges          |-> <<>>,
     related         |-> <<[type |-> "note", value |-> notes]>>]

(* TraceLogger.log: the record as given, vcs and timestamp filled in when *)
(* the caller left them out                                               *)
log(record) ==
    [writer   |-> "log",
     keys     |-> record.keys \cup {"vcs", "timestamp"},
     vcs      |-> IF record.vcs # Absent THEN record.vcs[1]
                  ELSE [revision_id |-> Some(getCurrentGitSHA)],
     intentId |-> record.intentId,
     files    |-> record.files]

(* JSON.stringify leaves out the keys whose value is undefined *)
logTrace(files, intentId, promptText) ==
    [writer   |-> "logTrace",
     keys     |-> {"id", "timestamp", "vcs", "files"}
                  \cup (IF intentId # Absent THEN {"intentId"} ELSE {})
                  \cup (IF promptText # Absent THEN {"promptText"} ELSE {}),
     vcs      |-> [revision_id |-> Some(getCurrentGitSHA)],
     intentId |-> IF intentId # Absent THEN intentId[1] ELSE "",
     files    |-> files]

logPrompt(prompt) ==
    [writer   |-> "logPrompt",
     keys     |-> {"id", "timestamp", "vcs", "intentId", "files", "promptText"},
     vcs      |-> [revision_id |-> Some(getCurrentGitSHA)],
     intentId |-> prompt.intentId,
     files    |-> <<>>]

logFileChange(event) ==
    [writer   |-> "logFileChange",
     keys     |-> {"id", "timestamp", "vcs", "intentId", "files"},
     vcs      |-> [revision_id |-> Some(getCurrentGitSHA)],
     intentId |-> event.intentId,
     files    |-> <<FileEntry(event.filePath,
                              IF event.before # Absent /\ event.after # Absent
                              THEN classifyMutation(event.before[1], event.after[1])
                              ELSE {},
                              event.notes)>>]

(* ------------------------- hooks/scopeValidator ------------------------ *)

StripGlob(allowed) ==
    IF EndsWith(allowed, <<"/", "*", "*">>)
    THEN SubSeq(allowed, 1, Len(allowed) - 3) ELSE allowed

(* a validator that has nothing to object to when no file is named *)
scopeValidator_noPathAllowed(event, context) ==
    IF event.payload.filePath = NoPath THEN TRUE
    ELSE LET absolutePath == PathResolve(context.workspaceRoot, event.payload.filePath)
         IN \E k \in DOMAIN context.allowedPaths :
               StartsWith(absolutePath,
                          PathResolve(context.workspaceRoot,
                                      StripGlob(context.allowedPaths[k])))

scopeValidator(event, context) ==
    IF event.payload.filePath = NoPath THEN FALSE
    ELSE LET absolutePath == PathResolve(context.workspaceRoot, event.payload.filePath)
         IN \E k \in DOMAIN context.allowedPaths :
               StartsWith(absolutePath,
                          PathResolve(context.workspaceRoot,
                                      StripGlob(context.allowedPaths[k])))

(* ------------------------- hooks/concurrencyGuard ---------------------- *)
(* per-path advisory lock plus the comparison of the session's lastSync   *)
(* with the current revision id                                           *)

LockKey(event, context) == PathResolve(context.workspaceRoot, event.payload.filePath)

concurrencyGuard(event, context, held) ==
    /\ LockKey(event, context) \notin held
    /\ context.lastSync = getCurrentGitSHA

(* --------------------------- hooks/preToolUse -------------------------- *)

(* slice(-n): the last n entries *)
Take_last(s, n) == IF Len(s) > n THEN SubSeq(s, Len(s) - n + 1, Len(s)) ELSE s

(* slice(0, n) *)
Take(s, n) == IF Len(s) > n THEN SubSeq(s, 1, n) ELSE s

(* context-load without the status guard *)
preToolUse_noStatusGuard(L, intentId) ==
    LET r == loadIntent(L, intentId)
    IN IF ~r.ok THEN [ok |-> FALSE, error |-> r.error]
       ELSE [ok |-> TRUE,
             activeIntent |->
                 [id                  |-> r.intent.id,
                  status              |-> r.intent.status,
                  owned_scope         |-> Take(r.intent.owned_scope, MAX_SCOPE_ENTRIES),
                  constraints         |-> Take(r.intent.constraints, MAX_CONSTRAINTS),
                  acceptance_criteria |-> Take(r.intent.acceptance_criteria, MAX_CRITERIA)]]

preToolUse(L, intentId) ==
    LET r == loadIntent(L, intentId)
    IN IF ~r.ok THEN [ok |-> FALSE, error |-> r.error]
       ELSE IF r.intent.status = "COMPLETED"
            THEN [ok    |-> FALSE,
                  error |-> Err("IntentCompleted",
                                <<intentId, IdsWithStatus(getWorkableIntents(L))>>)]
       ELSE IF r.intent.status = "LOCKED"
            THEN [ok |-> FALSE, error |-> Err("IntentLocked", <<intentId>>)]
       ELSE [ok |-> TRUE,
             activeIntent |->
                 [id                  |-> r.intent.id,
                  status              |-> r.intent.status,
                  owned_scope         |-> Take(r.intent.owned_scope, MAX_SCOPE_ENTRIES),
                  constraints         |-> Take(r.intent.constraints, MAX_CONSTRAINTS),
                  acceptance_criteria |-> Take(r.intent.acceptance_criteria, MAX_CRITERIA)]]

(* ------------------------------ HookEngine ----------------------------- *)

(* the invocations of executeTool that can be in flight together *)
Invs == {1, 2}

(* a caller that awaits each call before it makes the next *)
Sequential == {1}

PreHookKinds == {"allow", "deny", "throw"}

PostHookKinds == {"ok", "throw"}

CommandTypes == {"safe", "destructive"}

Contents == <<<<Absent, Absent>>,
              <<Some(EmptyContent), Some(ExportFnContent)>>,
              <<Some(LetContent), Absent>>>>

Payload(fp, ct, c) ==
    [filePath |-> fp, commandType |-> ct, before |-> c[1], after |-> c[2]]

Event(id, fp, ct, c) ==
    [toolName |-> "write_file", intentId |-> id, payload |-> Payload(fp, ct, c)]

(* the tool calls tried: every path under both intents, an unknown intent, *)
(* destructive commands with and without a target, and payloads carrying  *)
(* file contents                                                          *)
Events ==
    {Event(id, fp, "safe", Contents[1]) : id \in Intents, fp \in FilePaths}
    \cup {Event(UnknownId, PathAF, "safe", Contents[1])}
    \cup {Event("I1", fp, "destructive", Contents[1]) : fp \in {PathAF, NoPath}}
    \cup {Event("I1", PathAF, "safe", Contents[k]) : k \in 2..Len(Contents)}

NoEvent ==
    [toolName |-> "", intentId |-> "",
     payload  |-> [filePath |-> NoPath, commandType |-> "safe",
                   before |-> Absent, after |-> Absent]]

StaleRevision == "old000"

FreshContext(lastSync) ==
    [workspaceRoot |-> WorkspaceRoot,
     lastSync      |-> lastSync,
     activeIntent  |-> Absent,
     allowedPaths  |-> <<>>,
     feedback      |-> <<>>]

(* a call is an event and the lastSync of the caller's session: in sync   *)
(* with the workspace, or (for a target in and one out of scope) stale    *)
StaleEvents == {Event("I1", fp, "safe", Contents[1]) : fp \in {PathAF, PathUF}}

(* pc: where the invocation of executeTool stands; stages, hooksRun,      *)
(* executorCalls, executorThrew and prompted record what the invocation   *)
(* did; hooks0, trace0 and ledger0 the registered hooks, the trace file   *)
(* and the ledger it started from                                         *)
IdleInv ==
    [pc            |-> "idle",
     event         |-> NoEvent,
     context       |-> FreshContext(StaleRevision),
     hookIdx       |-> 1,
     toolResult    |-> Absent,
     result        |-> Absent,
     holdsLock     |-> FALSE,
     stages        |-> <<>>,
     hooksRun      |-> <<>>,
     executorCalls |-> 0,
     executorThrew |-> Absent,
     prompted      |-> 0,
     answer        |-> Absent,
     hooks0        |-> [pre |-> <<>>, post |-> <<>>],
     trace0        |-> <<>>,
     ledger0       |-> [id \in Intents |-> "NONE"]]

Value(success, reason) == [kind |-> "value", success |-> success, reason |-> reason]

Rejected(reason) == [kind |-> "rejected", success |-> FALSE, reason |-> reason]

AddFeedback(context, msg) ==
    [context EXCEPT !.feedback = Append(@, msg)]

InFlight(i) == inv[i].pc \notin {"idle", "done"}

Quiet == \A i \in Invs : ~InFlight(i)

(* every exit of executeTool: the result goes to the caller; no exit of   *)
(* executeTool gives anything back to the concurrency guard               *)
Finish(i, r, res) ==
    /\ inv' = [inv EXCEPT ![i] = [r EXCEPT !.pc = "done", !.result = Some(res)]]
    /\ locks' = locks

Goto(i, r, pc) ==
    /\ inv' = [inv EXCEPT ![i] = [r EXCEPT !.pc = pc]]
    /\ locks' = locks

Staged(r, stage) == [r EXCEPT !.stages = Append(@, stage)]

(* the ledgers a pipeline run starts from: the first intent in every raw  *)
(* status, the second one workable or not                                 *)
Ledgers == {L \in [Intents -> RawStatuses] : L["I2"] \in {"PENDING", "COMPLETED"}}

Init ==
    /\ ledger \in Ledgers
    /\ trace = <<>>
    /\ traceFileExists = FALSE
    /\ git \in Revisions
    /\ preHooks = <<>>
    /\ postHooks = <<>>
    /\ inv = [i \in Invs |-> IdleInv]
    /\ locks = {}
    /\ calls = 0
    /\ lastOp = NoOp

(* this.preHooks.unshift(hook) *)
registerPreToolUse_unshift(hook) ==
    /\ calls = 0
    /\ preHooks' = <<hook>> \o preHooks
    /\ UNCHANGED <<ledger, trace, traceFileExists, git, postHooks, inv, locks, calls, lastOp>>

(* hooks are registered while the engine is set up, before its first call *)
registerPreToolUse(hook) ==
    /\ calls = 0
    /\ preHooks' = Append(preHooks, hook)
    /\ UNCHANGED <<ledger, trace, traceFileExists, git, postHooks, inv, locks, calls, lastOp>>

registerPostToolUse(hook) ==
    /\ calls = 0
    /\ postHooks' = Append(postHooks, hook)
    /\ UNCHANGED <<ledger, trace, traceFileExists, git, preHooks, inv, locks, calls, lastOp>>

(* intentStatusManager.transitionStatus *)
(* what an operation of the status manager did, for the caller to see:    *)
(* how it ended, what it returned or threw and the ledger it found        *)
Recorded(op, intentId, to, outcome, returned, error) ==
    [op |-> op, id |-> intentId, to |-> to,
     from |-> IF intentId \in Intents THEN getIntentStatus(ledger, intentId) ELSE "",
     outcome |-> outcome, returned |-> returned, error |-> error,
     before |-> ledger]

(* an update that writes back the ledger as an earlier operation read it *)
StatusWrite_staleSnapshot(op, intentId, to) ==
    LET outcome == transitionOutcome(ledger, intentId, to)
    IN /\ Quiet
       /\ lastOp' = Recorded(op, intentId, to, outcome, "", NoError)
       /\ ledger' = IF outcome = "ok"
                    THEN IF lastOp.op = "none"
                         THEN [ledger EXCEPT ![intentId] = to]
                         ELSE [lastOp.before EXCEPT ![intentId] = to]
                    ELSE ledger
       /\ UNCHANGED <<trace, traceFileExists, git, preHooks, postHooks, inv, locks, calls>>

(* loadRaw, check against the table, set the status, saveRaw *)
StatusWrite(op, intentId, to) ==
    LET outcome == transitionOutcome(ledger, intentId, to)
    IN /\ Quiet
       /\ lastOp' = Recorded(op, intentId, to, outcome, "", NoError)
       /\ ledger' = IF outcome = "ok" THEN [ledger EXCEPT ![intentId] = to] ELSE ledger
       /\ UNCHANGED <<trace, traceFileExists, git, preHooks, postHooks, inv, locks, calls>>

(* a transitionStatus that sets and saves the status before it checks *)
transitionStatus_savesBeforeCheck(intentId, to) ==
    LET outcome == transitionOutcome(ledger, intentId, to)
    IN /\ Quiet
       /\ lastOp' = Recorded("transitionStatus", intentId, to, outcome, "", NoError)
       /\ ledger' = IF intentId \in Intents THEN [ledger EXCEPT ![intentId] = to]
                    ELSE ledger
       /\ UNCHANGED <<trace, traceFileExists, git, preHooks, postHooks, inv, locks, calls>>

transitionStatus(intentId, to) == StatusWrite("transitionStatus", intentId, to)

markCompleted(intentId) == StatusWrite("markCompleted", intentId, "COMPLETED")

lockIntent(intentId) == StatusWrite("lockIntent", intentId, "LOCKED")

(* markInProgress: whether it goes on to transitionStatus *)
markInProgressWrites(L, intentId) ==
    getIntentStatus(L, intentId) = "PENDING"

markInProgress(intentId) ==
    /\ Quiet
    /\ IF intentId \notin Intents
       THEN /\ ledger' = ledger
            /\ lastOp' = Recorded("markInProgress", intentId, "IN_PROGRESS",
                                  "NotFound", "", NoError)
       ELSE IF markInProgressWrites(ledger, intentId)
       THEN LET outcome == transitionOutcome(ledger, intentId, "IN_PROGRESS")
            IN /\ ledger' = IF outcome = "ok"
                            THEN [ledger EXCEPT ![intentId] = "IN_PROGRESS"] ELSE ledger
               /\ lastOp' = Recorded("markInProgress", intentId, "IN_PROGRESS",
                                     outcome, "", NoError)
       ELSE /\ ledger' = ledger
            /\ lastOp' = Recorded("markInProgress", intentId, "IN_PROGRESS",
                                  "ok", "", NoError)
    /\ UNCHANGED <<trace, traceFileExists, git, preHooks, postHooks, inv, locks, calls>>

(* guardIntent as selectActiveIntent calls it, with the ids of the ledger *)
GuardIntent(intentId) ==
    LET intents == getActiveIntents(ledger)
        g == guardIntent(ledger, intentId, [k \in DOMAIN intents |-> intents[k].id])
    IN /\ Quiet
       /\ lastOp' = Recorded("guardIntent", intentId, "",
                             IF g.ok THEN "ok" ELSE g.error.text, g.status, g.error)
       /\ UNCHANGED <<ledger, trace, traceFileExists, git, preHooks, postHooks, inv,
                      locks, calls>>

(* intentTools.selectActiveIntent: returns the intent as it was loaded *)
selectActiveIntent(intentId) ==
    LET intents == getActiveIntents(ledger)
        g == guardIntent(ledger, intentId, [k \in DOMAIN intents |-> intents[k].id])
    IN /\ Quiet
       /\ IF ~g.ok
          THEN /\ ledger' = ledger
               /\ lastOp' = Recorded("selectActiveIntent", intentId, "IN_PROGRESS",
                                     g.error.text, "", g.error)
          ELSE LET intent == intents[CHOOSE k \in DOMAIN intents : intents[k].id = intentId]
               IN /\ ledger' = IF g.status = "PENDING" /\ markInProgressWrites(ledger, intentId)
                               THEN [ledger EXCEPT ![intentId] = "IN_PROGRESS"]
                               ELSE ledger
                  /\ lastOp' = Recorded("selectActiveIntent", intentId, "IN_PROGRESS",
                                        "ok", intent.status, NoError)
       /\ UNCHANGED <<trace, traceFileExists, git, preHooks, postHooks, inv, locks, calls>>

(* the caller builds the context (its PromptBuilder makes a TraceLogger)  *)
(* and enters executeTool(event, context, executor)                       *)
Call(i, event, lastSync) ==
    /\ inv[i].pc \in {"idle", "done"}
    /\ calls' = calls + 1
    /\ trace' = TraceLogger(traceFileExists, trace)
    /\ traceFileExists' = TRUE
    /\ inv' = [inv EXCEPT ![i] = [IdleInv EXCEPT !.pc = "preToolUse",
                                                 !.event = event,
                                                 !.context = FreshContext(lastSync),
                                                 !.hooks0 = [pre  |-> preHooks,
                                                             post |-> postHooks],
                                                 !.trace0 = trace',
                                                 !.ledger0 = ledger]]
    /\ UNCHANGED <<ledger, git, preHooks, postHooks, locks, lastOp>>

(* the order of the architecture report: concurrency guard before scope *)
AfterStage_guardFirst(pc) ==
    CASE pc = "preHooks"    -> "concurrency"
      [] pc = "concurrency" -> "scope"
      [] pc = "scope"       -> "approval"
      [] pc = "approval"    -> "executor"

(* the order of the built-in stages between the pre-hooks and the executor *)
AfterStage(pc) ==
    CASE pc = "preHooks"    -> "scope"
      [] pc = "scope"       -> "concurrency"
      [] pc = "concurrency" -> "approval"
      [] pc = "approval"    -> "executor"

AfterContextLoad == IF preHooks = <<>> THEN AfterStage("preHooks") ELSE "preHooks"

(* a context-load that keeps the allowedPaths the caller has put in *)
ContextLoad_keepsCallerPaths(i) ==
    LET r   == Staged(inv[i], "context-load")
        res == preToolUse(ledger, r.event.intentId)
    IN /\ inv[i].pc = "preToolUse"
       /\ IF res.ok
          THEN /\ trace' = Append(trace, logPrompt([intentId |-> r.event.intentId]))
               /\ Goto(i, [r EXCEPT !.context.activeIntent = Some(res.activeIntent),
                                    !.context.allowedPaths =
                                        IF @ # <<>> THEN @
                                        ELSE res.activeIntent.owned_scope],
                       AfterContextLoad)
          ELSE /\ trace' = trace
               /\ Finish(i, [r EXCEPT !.context =
                                 AddFeedback(@, Err("[PreToolUse] Error", res.error))],
                         Value(FALSE, res.error))
       /\ UNCHANGED <<ledger, traceFileExists, git, preHooks, postHooks, calls, lastOp>>

(* stage 1: preToolUse(event.intentId, context) *)
ContextLoad(i) ==
    LET r   == Staged(inv[i], "context-load")
        res == preToolUse(ledger, r.event.intentId)
    IN /\ inv[i].pc = "preToolUse"
       /\ IF res.ok
          THEN /\ trace' = Append(trace, logPrompt([intentId |-> r.event.intentId]))
               /\ Goto(i, [r EXCEPT !.context.activeIntent = Some(res.activeIntent),
                                    !.context.allowedPaths = res.activeIntent.owned_scope],
                       AfterContextLoad)
          ELSE /\ trace' = trace
               /\ Finish(i, [r EXCEPT !.context =
                                 AddFeedback(@, Err("[PreToolUse] Error", res.error))],
                         Value(FALSE, res.error))
       /\ UNCHANGED <<ledger, traceFileExists, git, preHooks, postHooks, calls, lastOp>>

(* stage 2: one registered pre-hook *)
RunPreHook(i) ==
    LET k == inv[i].hookIdx
        r == [inv[i] EXCEPT !.hookIdx = k + 1,
                            !.hooksRun = Append(@, <<"pre", k>>),
                            !.stages = IF k = 1 THEN Append(@, "pre-hooks") ELSE @]
    IN /\ inv[i].pc = "preHooks"
       /\ k \in DOMAIN preHooks
       /\ CASE preHooks[k] = "allow" ->
                 Goto(i, [r EXCEPT !.hookIdx = IF k = Len(preHooks) THEN 1 ELSE k + 1],
                      IF k = Len(preHooks) THEN AfterStage("preHooks") ELSE "preHooks")
            [] preHooks[k] = "deny" ->
                 Finish(i, r, Value(FALSE, Err("Pre-hook blocked execution", <<>>)))
            [] preHooks[k] = "throw" ->
                 Finish(i, r, Rejected(Err("pre-hook error", <<k>>)))
       /\ UNCHANGED <<ledger, trace, traceFileExists, git, preHooks, postHooks, calls, lastOp>>

(* stage 3 *)
ScopeValidation(i) ==
    LET r == Staged(inv[i], "scope")
    IN /\ inv[i].pc = "scope"
       /\ IF scopeValidator(r.event, r.context)
          THEN Goto(i, r, AfterStage("scope"))
          ELSE Finish(i,
                      IF r.event.payload.filePath = NoPath THEN r
                      ELSE [r EXCEPT !.context =
                               AddFeedback(@, Err("Scope violation: Agent attempted to modify",
                                                  r.event.payload.filePath))],
                      Value(FALSE, Err("Scope violation", <<>>)))
       /\ UNCHANGED <<ledger, trace, traceFileExists, git, preHooks, postHooks, calls, lastOp>>

(* stage 4 *)
ConcurrencyGuard(i) ==
    LET r == Staged(inv[i], "concurrency")
    IN /\ inv[i].pc = "concurrency"
       /\ IF concurrencyGuard(r.event, r.context, locks)
          THEN /\ inv' = [inv EXCEPT ![i] = [r EXCEPT !.pc = AfterStage("concurrency"),
                                                      !.holdsLock = TRUE]]
               /\ locks' = locks \cup {LockKey(r.event, r.context)}
          ELSE Finish(i, r, Value(FALSE, Err("Concurrency conflict detected", <<>>)))
       /\ UNCHANGED <<ledger, trace, traceFileExists, git, preHooks, postHooks, calls, lastOp>>

Selections == {"Approve", "Reject", "dismissed"}

(* a prompt closed without an answer counts as approval *)
approvalGuard_dismissalApproves(event, selection) ==
    IF event.payload.commandType # "destructive"
    THEN [prompted |-> FALSE, allowed |-> TRUE, feedback |-> ""]
    ELSE IF selection # "Reject"
    THEN [prompted |-> TRUE, allowed |-> TRUE,  feedback |-> "User approved command"]
    ELSE [prompted |-> TRUE, allowed |-> FALSE, feedback |-> "User rejected command"]

(* approvalGuard(event, context), selection being the approver's answer   *)
(* to showWarningMessage                                                  *)
approvalGuard(event, selection) ==
    IF event.payload.commandType # "destructive"
    THEN [prompted |-> FALSE, allowed |-> TRUE, feedback |-> ""]
    ELSE IF selection = "Approve"
    THEN [prompted |-> TRUE, allowed |-> TRUE,  feedback |-> "User approved command"]
    ELSE [prompted |-> TRUE, allowed |-> FALSE, feedback |-> "User rejected command"]

(* stage 5 *)
ApprovalGate(i) ==
    LET r == Staged(inv[i], "approval")
    IN /\ inv[i].pc = "approval"
       /\ \E selection \in Selections :
             LET g == approvalGuard(r.event, selection)
                 p == IF g.prompted
                      THEN [r EXCEPT !.prompted = @ + 1,
                                     !.answer = Some(selection),
                                     !.context = AddFeedback(@, Err(g.feedback, <<>>))]
                      ELSE r
             IN IF g.allowed
                THEN Goto(i, p, AfterStage("approval"))
                ELSE Finish(i, p, Value(FALSE, Err("Human approval denied", <<>>)))
       /\ UNCHANGED <<ledger, trace, traceFileExists, git, preHooks, postHooks, calls, lastOp>>

ExecutorOutcomes ==
    {[thrown |-> FALSE, success |-> TRUE,  message |-> Err("tool done", <<>>)],
     [thrown |-> FALSE, success |-> FALSE, message |-> Err("tool failed", <<>>)],
     [thrown |-> TRUE,  success |-> FALSE, message |-> Err("tool crashed", <<>>)]}

AfterPostTrace == IF postHooks = <<>> THEN "return" ELSE "postHooks"

(* a catch block that logs the error and falls through *)
AfterExecutor_fallsThrough(out, filePath) ==
    IF filePath # NoPath THEN "postToolUse" ELSE AfterPostTrace

(* where the pipeline goes once the executor has settled *)
AfterExecutor(out, filePath) ==
    IF out.thrown THEN "done"
    ELSE IF filePath # NoPath THEN "postToolUse" ELSE AfterPostTrace

(* stage 6: the caller-provided executor *)
Executor(i) ==
    LET r == [Staged(inv[i], "executor") EXCEPT !.executorCalls = @ + 1]
    IN /\ inv[i].pc = "executor"
       /\ \E out \in ExecutorOutcomes :
             LET r2 == [r EXCEPT !.toolResult = Some(out),
                                 !.executorThrew =
                                     IF out.thrown THEN Some(out.message) ELSE Absent]
                 to == AfterExecutor(out, r.event.payload.filePath)
             IN IF to = "done"
                THEN Finish(i, r2, Value(FALSE, out.message))
                ELSE Goto(i, r2, to)
       /\ UNCHANGED <<ledger, trace, traceFileExists, git, preHooks, postHooks, calls, lastOp>>

ToolingOutcomes == {"prettier-fails", "eslint-fails", "stderr", "stdout", "silent"}

(* stage 7: postToolUse(event.payload.filePath, context) *)
PostTrace(i) ==
    LET r  == Staged(inv[i], "post-trace")
        fp == r.event.payload.filePath
        file == TraceLogger(traceFileExists, trace)
    IN /\ inv[i].pc = "postToolUse"
       /\ traceFileExists' = TRUE
       /\ \E tooling \in ToolingOutcomes :
             IF tooling \in {"prettier-fails", "eslint-fails"}
             THEN /\ trace' = file
                  /\ Goto(i, [r EXCEPT !.context =
                                 AddFeedback(@, Err("PostToolUse error for", fp))],
                          AfterPostTrace)
             ELSE LET c == IF tooling = "stderr"
                           THEN AddFeedback(r.context, Err("ESLint issues in", fp))
                           ELSE IF tooling = "stdout"
                           THEN AddFeedback(r.context, Err("ESLint applied fixes to", fp))
                           ELSE r.context
                  IN /\ trace' = IF c.activeIntent # Absent
                                 THEN Append(file,
                                        logFileChange([intentId |-> c.activeIntent[1].id,
                                                       filePath |-> fp,
                                                       notes    |-> "PostToolUse completed",
                                                       before   |-> Absent,
                                                       after    |-> Absent]))
                                 ELSE file
                     /\ Goto(i, [r EXCEPT !.context = c], AfterPostTrace)
       /\ UNCHANGED <<ledger, git, preHooks, postHooks, calls, lastOp>>

(* stage 8: one registered post-hook *)
RunPostHook(i) ==
    LET k == inv[i].hookIdx
        r == [inv[i] EXCEPT !.hookIdx = k + 1,
                            !.hooksRun = Append(@, <<"post", k>>),
                            !.stages = IF k = 1 THEN Append(@, "post-hooks") ELSE @]
    IN /\ inv[i].pc = "postHooks"
       /\ k \in DOMAIN postHooks
       /\ IF postHooks[k] = "ok"
          THEN Goto(i, r, IF k = Len(postHooks) THEN "return" ELSE "postHooks")
          ELSE Finish(i, r, Rejected(Err("post-hook error", <<k>>)))
       /\ UNCHANGED <<ledger, trace, traceFileExists, git, preHooks, postHooks, calls, lastOp>>

(* return { success: toolResult.success, reason: toolResult.message } *)
Return(i) ==
    /\ inv[i].pc = "return"
    /\ Finish(i, inv[i], Value(inv[i].toolResult[1].success, inv[i].toolResult[1].message))
    /\ UNCHANGED <<ledger, trace, traceFileExists, git, preHooks, postHooks, calls, lastOp>>

(* one step of an invocation that is in flight *)
Stage(i) ==
    \/ ContextLoad(i)
    \/ RunPreHook(i)
    \/ ScopeValidation(i)
    \/ ConcurrencyGuard(i)
    \/ ApprovalGate(i)
    \/ Executor(i)
    \/ PostTrace(i)
    \/ RunPostHook(i)
    \/ Return(i)

(* the pipeline around the calls of one sequential caller *)
Next ==
    \/ \E h \in PreHookKinds : Len(preHooks) < MaxHooks /\ registerPreToolUse(h)
    \/ \E h \in PostHookKinds : Len(postHooks) < MaxHooks /\ registerPostToolUse(h)
    \/ \E i \in Sequential, e \in Events :
          calls < MaxCalls /\ Call(i, e, getCurrentGitSHA)
    \/ \E i \in Sequential, e \in StaleEvents :
          calls < MaxCalls /\ Call(i, e, StaleRevision)
    \/ \E i \in Sequential : Stage(i)

Spec == Init /\ [][Next]_vars

(* ------------------- core/toolExecutor: executeTool -------------------- *)
(* the standalone executeTool: a minimal context of its own, preToolUse,   *)
(* the tool, postToolUse; every error is caught and returned               *)

StandaloneContext == [FreshContext("") EXCEPT !.allowedPaths = <<>>]

StandaloneCall(i, toolRequest) ==
    /\ inv[i].pc \in {"idle", "done"}
    /\ calls' = calls + 1
    /\ trace' = TraceLogger(traceFileExists, trace)
    /\ traceFileExists' = TRUE
    /\ inv' = [inv EXCEPT ![i] = [IdleInv EXCEPT !.pc = "standalone-preToolUse",
                                                 !.event = toolRequest,
                                                 !.context = StandaloneContext,
                                                 !.trace0 = trace',
                                                 !.ledger0 = ledger]]
    /\ UNCHANGED <<ledger, git, preHooks, postHooks, locks, lastOp>>

(* await preToolUse(toolRequest.intentId, context), inside the try *)
StandalonePreToolUse(i) ==
    LET r   == Staged(inv[i], "context-load")
        res == preToolUse(ledger, r.event.intentId)
    IN /\ inv[i].pc = "standalone-preToolUse"
       /\ IF res.ok
          THEN /\ trace' = Append(trace, logPrompt([intentId |-> r.event.intentId]))
               /\ Goto(i, [r EXCEPT !.context.activeIntent = Some(res.activeIntent),
                                    !.context.allowedPaths = res.activeIntent.owned_scope],
                       "standalone-tool")
          ELSE /\ trace' = trace
               /\ Finish(i, [r EXCEPT !.context =
                                 AddFeedback(@, Err("[PreToolUse] Error", res.error))],
                         Value(FALSE, res.error))
       /\ UNCHANGED <<ledger, traceFileExists, git, preHooks, postHooks, calls, lastOp>>

(* await simulateAgentTool(toolRequest, context.activeIntent ?? null) *)
StandaloneTool(i) ==
    LET r == [Staged(inv[i], "executor") EXCEPT
                 !.executorCalls = @ + 1,
                 !.toolResult = Some([thrown |-> FALSE, success |-> TRUE,
                                      message |-> Err("tool done", <<>>)])]
    IN /\ inv[i].pc = "standalone-tool"
       /\ Goto(i, r, IF r.event.payload.filePath # NoPath THEN "postToolUse" ELSE "return")
       /\ UNCHANGED <<ledger, trace, traceFileExists, git, preHooks, postHooks, calls, lastOp>>

NextStandalone ==
    \/ \E i \in Sequential, e \in Events :
          calls < MaxCalls /\ StandaloneCall(i, e)
    \/ \E i \in Sequential : StandalonePreToolUse(i)
    \/ \E i \in Sequential : StandaloneTool(i)
    \/ \E i \in Sequential : PostTrace(i)
    \/ \E i \in Sequential : Return(i)

SpecStandalone == Init /\ [][NextStandalone]_vars

(* the state machine on its own: any ledger, any sequence of operations *)
InitSM ==
    /\ ledger \in [Intents -> RawStatuses]
    /\ trace = <<>>
    /\ traceFileExists = FALSE
    /\ git \in Revisions
    /\ preHooks = <<>>
    /\ postHooks = <<>>
    /\ inv = [i \in Invs |-> IdleInv]
    /\ locks = {}
    /\ calls = 0
    /\ lastOp = NoOp

IntentIds == Intents \cup {UnknownId}

NextSM ==
    \/ \E id \in IntentIds, to \in VALID_STATUSES : transitionStatus(id, to)
    \/ \E id \in IntentIds : markInProgress(id)
    \/ \E id \in IntentIds : markCompleted(id)
    \/ \E id \in IntentIds : lockIntent(id)
    \/ \E id \in IntentIds : GuardIntent(id)
    \/ \E id \in IntentIds : selectActiveIntent(id)

SpecSM == InitSM /\ [][NextSM]_vars

(* the ledgers a tool call starts from, in a repository with a head commit *)
InitLife ==
    /\ ledger \in Ledgers
    /\ trace = <<>>
    /\ traceFileExists = FALSE
    /\ git = "abc123"
    /\ preHooks = <<>>
    /\ postHooks = <<>>
    /\ inv = [i \in Invs |-> IdleInv]
    /\ locks = {}
    /\ calls = 0
    /\ lastOp = NoOp

(* a tool call under each intent, on a target within its scope *)
LifeEvents ==
    {Event("I1", PathAF, "safe", Contents[1]), Event("I2", PathUF, "safe", Contents[1])}

(* the life of the ledger: the operations of the status manager and of   *)
(* the intent tools, and tool calls through an engine without hooks       *)
NextLife ==
    \/ \E id \in IntentIds, to \in VALID_STATUSES : transitionStatus(id, to)
    \/ \E id \in IntentIds : markInProgress(id)
    \/ \E id \in IntentIds : markCompleted(id)
    \/ \E id \in IntentIds : lockIntent(id)
    \/ \E id \in IntentIds : selectActiveIntent(id)
    \/ \E i \in Sequential, e \in LifeEvents :
          calls < MaxCalls /\ Call(i, e, getCurrentGitSHA)
    \/ \E i \in Sequential : ContextLoad(i)
    \/ \E i \in Sequential : ScopeValidation(i)
    \/ \E i \in Sequential : ConcurrencyGuard(i)
    \/ \E i \in Sequential : ApprovalGate(i)
    \/ \E i \in Sequential : Executor(i)
    \/ \E i \in Sequential : PostTrace(i)
    \/ \E i \in Sequential : Return(i)

SpecLife == InitLife /\ [][NextLife]_vars

(* a ledger of workable intents in a repository with a head commit *)
InitWorkable ==
    /\ ledger = [id \in Intents |-> "PENDING"]
    /\ trace = <<>>
    /\ traceFileExists = FALSE
    /\ git = "abc123"
    /\ preHooks = <<>>
    /\ postHooks = <<>>
    /\ inv = [i \in Invs |-> IdleInv]
    /\ locks = {}
    /\ calls = 0
    /\ lastOp = NoOp

(* calls on one path and on another, each within its intent's scope *)
ConcurrentEvents ==
    {Event("I1", PathAF, "safe", Contents[1]), Event("I2", PathUF, "safe", Contents[1])}

(* an engine without registered hooks whose callers do not wait for each  *)
(* other: the invocations interleave at every await                       *)
NextCC ==
    \/ \E i \in Invs, e \in ConcurrentEvents :
          calls < MaxConcurrentCalls /\ Call(i, e, getCurrentGitSHA)
    \/ \E i \in Invs : ContextLoad(i)
    \/ \E i \in Invs : ScopeValidation(i)
    \/ \E i \in Invs : ConcurrencyGuard(i)
    \/ \E i \in Invs : ApprovalGate(i)
    \/ \E i \in Invs : Executor(i)
    \/ \E i \in Invs : PostTrace(i)
    \/ \E i \in Invs : Return(i)

SpecCC == InitWorkable /\ [][NextCC]_vars

(* the caller gives up an invocation in flight: executeTool(event,         *)
(* executor) takes no token or signal through which it could learn of it,  *)
(* so the invocation goes on as before; what the invocation had done by    *)
(* then is noted for the caller                                            *)
Cancel(i) ==
    /\ InFlight(i)
    /\ lastOp.op # "cancel"
    /\ lastOp' = [op |-> "cancel", inv |-> i, pc |-> inv[i].pc,
                  stages |-> inv[i].stages, executorCalls |-> inv[i].executorCalls,
                  trace |-> trace]
    /\ UNCHANGED <<ledger, trace, traceFileExists, git, preHooks, postHooks, inv,
                   locks, calls>>

(* an engine without registered hooks whose caller may give up a call *)
NextCancel ==
    \/ \E i \in Sequential, e \in ConcurrentEvents :
          calls < MaxCalls /\ Call(i, e, getCurrentGitSHA)
    \/ \E i \in Sequential : Cancel(i)
    \/ \E i \in Sequential : ContextLoad(i)
    \/ \E i \in Sequential : ScopeValidation(i)
    \/ \E i \in Sequential : ConcurrencyGuard(i)
    \/ \E i \in Sequential : ApprovalGate(i)
    \/ \E i \in Sequential : Executor(i)
    \/ \E i \in Sequential : PostTrace(i)
    \/ \E i \in Sequential : Return(i)

SpecCancel == InitWorkable /\ [][NextCancel]_vars

(* executeTool(event, context, executor) with a context in which the      *)
(* caller has already put allowedPaths of its own                         *)
CallPrepared(i, event, allowedPaths) ==
    /\ inv[i].pc \in {"idle", "done"}
    /\ calls' = calls + 1
    /\ trace' = TraceLogger(traceFileExists, trace)
    /\ traceFileExists' = TRUE
    /\ inv' = [inv EXCEPT ![i] =
                  [IdleInv EXCEPT !.pc = "preToolUse",
                                  !.event = event,
                                  !.context = [FreshContext(getCurrentGitSHA)
                                                  EXCEPT !.allowedPaths = allowedPaths],
                                  !.hooks0 = [pre |-> preHooks, post |-> postHooks],
                                  !.trace0 = trace',
                                  !.ledger0 = ledger]]
    /\ UNCHANGED <<ledger, git, preHooks, postHooks, locks, lastOp>>

(* nothing, a directory of the other intent, or the directory that only   *)
(* the last pattern of the long scope covers                              *)
CallerPaths == {<<>>, <<GlobU>>, <<GlobA>>}

(* an engine without registered hooks called with prepared contexts, on   *)
(* targets under the first and under the last pattern of the long scope   *)
(* and on targets outside the short one                                   *)
NextScope ==
    \/ \E i \in Sequential, paths \in CallerPaths,
          e \in {Event("I2", PathAF, "safe", Contents[1]),
                 Event("I2", PathUF, "safe", Contents[1]),
                 Event("I1", PathUF, "safe", Contents[1]),
                 Event("I1", PathAXF, "safe", Contents[1])} :
          calls < MaxCalls /\ CallPrepared(i, e, paths)
    \/ \E i \in Sequential : ContextLoad(i)
    \/ \E i \in Sequential : ScopeValidation(i)
    \/ \E i \in Sequential : ConcurrencyGuard(i)
    \/ \E i \in Sequential : ApprovalGate(i)
    \/ \E i \in Sequential : Executor(i)
    \/ \E i \in Sequential : PostTrace(i)
    \/ \E i \in Sequential : Return(i)

SpecScope == Init /\ [][NextScope]_vars

(* the status manager and the intent tools at work on a ledger of          *)
(* workable intents, called in any order by the invocations in flight:     *)
(* each call is synchronous from its readFileSync to its writeFileSync     *)
SpecRMW == InitWorkable /\ [][NextSM]_vars

(* an engine set up with several hooks of each kind, then called on a     *)
(* target in scope                                                        *)
NextReg ==
    \/ \E h \in PreHookKinds :
          Len(preHooks) < MaxRegistrations /\ registerPreToolUse(h)
    \/ \E h \in PostHookKinds :
          Len(postHooks) < MaxRegistrations /\ registerPostToolUse(h)
    \/ \E i \in Sequential :
          calls < MaxCalls /\ Call(i, Event("I1", PathAF, "safe", Contents[1]),
                                   getCurrentGitSHA)
    \/ \E i \in Sequential : Stage(i)

SpecReg == InitWorkable /\ [][NextReg]_vars

(* the trace ledger on its own: loggers are constructed and records       *)
(* appended through any of the four append operations, in any order       *)
InitTL ==
    /\ ledger = [id \in Intents |-> "PENDING"]
    /\ trace = <<>>
    /\ traceFileExists = FALSE
    /\ git \in Revisions
    /\ preHooks = <<>>
    /\ postHooks = <<>>
    /\ inv = [i \in Invs |-> IdleInv]
    /\ locks = {}
    /\ calls = 0
    /\ lastOp = NoOp

(* what a caller of log() may put under the key vcs: nothing, a revision  *)
(* of its own, or an object without revision_id                           *)
CallerVcs ==
    {Absent, Some([revision_id |-> Some("cafe01")]), Some([revision_id |-> Absent])}

LogRecord(keys, vcs) ==
    [keys     |-> keys \cup (IF vcs # Absent THEN {"vcs"} ELSE {}),
     vcs      |-> vcs,
     intentId |-> IF "intentId" \in keys THEN "I1" ELSE "",
     files    |-> <<>>]

(* the records handed to log(): the one of the test suite, and a full one *)
LogRecords ==
    {LogRecord(keys, vcs) : keys \in {{"id", "content"}, {"id", "intentId", "files"}},
                            vcs \in CallerVcs}

Appended(line, op, arg) ==
    /\ traceFileExists
    /\ trace' = Append(trace, line)
    /\ lastOp' = [op |-> op, arg |-> arg]
    /\ UNCHANGED <<ledger, traceFileExists, git, preHooks, postHooks, inv, locks, calls>>

Construct ==
    /\ trace' = TraceLogger(traceFileExists, trace)
    /\ traceFileExists' = TRUE
    /\ lastOp' = [op |-> "new TraceLogger", arg |-> <<>>]
    /\ UNCHANGED <<ledger, git, preHooks, postHooks, inv, locks, calls>>

Log(record) == Appended(log(record), "log", record)

LogTrace(files, intentId, promptText) ==
    Appended(logTrace(files, intentId, promptText), "logTrace", <<files, intentId>>)

LogPrompt(prompt) == Appended(logPrompt(prompt), "logPrompt", prompt)

LogFileChange(event) == Appended(logFileChange(event), "logFileChange", event)

NextTL ==
    \/ Construct
    \/ \E record \in LogRecords : Len(trace) < MaxAppends /\ Log(record)
    \/ \E files \in {<<>>, <<FileEntry(PathAF, {}, "edited")>>},
          intentId \in {Absent, Some("I1")} :
          Len(trace) < MaxAppends /\ LogTrace(files, intentId, Some("prompt"))
    \/ \E id \in Intents :
          Len(trace) < MaxAppends /\ LogPrompt([intentId |-> id])
    \/ \E k \in DOMAIN Contents :
          Len(trace) < MaxAppends
          /\ LogFileChange([intentId |-> "I1", filePath |-> PathAF, notes |-> "edited",
                            before |-> Contents[k][1], after |-> Contents[k][2]])

SpecTL == InitTL /\ [][NextTL]_vars

(* ------------------------ the classifier on its own -------------------- *)
MaxLines == 2

(* raw lines of a source file: two declarations of each kind that an      *)
(* ADD and a DELETE of are upgraded, a type alias, a statement that is    *)
(* none of these, bare and surrounded by whitespace, and a blank line     *)
LinePool ==
    {<<"export", "function", "id", "(", ")", "{">>,
     <<"const", "id", "=", "(", ")", "=>", "num">>,
     <<"class", "id", "{">>,
     <<"export", "class", "id", "{">>,
     <<"import", "id", "from", "str">>,
     <<"import", "{", "id", "}", "from", "str">>,
     <<"type", "id", "=", "id">>,
     <<"let", "id", "=", "num">>,
     <<"ws", "let", "id", "=", "num", "ws">>,
     <<>>}

FileContents == UNION {[1..n -> LinePool] : n \in 0..MaxLines}

(* a caller holding the two versions of a file *)
InitClassify ==
    /\ ledger = [id \in Intents |-> "PENDING"]
    /\ trace = <<>>
    /\ traceFileExists = FALSE
    /\ git = "abc123"
    /\ preHooks = <<>>
    /\ postHooks = <<>>
    /\ inv = [i \in Invs |-> IdleInv]
    /\ locks = {}
    /\ calls = 0
    /\ \E before \in FileContents, after \in FileContents :
          lastOp = [op |-> "input", before |-> before, after |-> after, result |-> {}]

ClassifyMutation ==
    /\ lastOp.op = "input"
    /\ lastOp' = [lastOp EXCEPT !.op = "classifyMutation",
                                !.result = classifyMutation(lastOp.before, lastOp.after)]
    /\ UNCHANGED <<ledger, trace, traceFileExists, git, preHooks, postHooks, inv,
                   locks, calls>>

NextClassify == ClassifyMutation

SpecClassify == InitClassify /\ [][NextClassify]_vars

(* raw lines declaring types: aliases and interfaces, exported or not,    *)
(* and a statement that declares nothing                                  *)
TypeLinePool ==
    {<<"type", "id", "=", "id">>,
     <<"export", "type", "id", "=", "num">>,
     <<"interface", "id", "{">>,
     <<"export", "interface", "id", "{">>,
     <<"let", "id", "=", "num">>,
     <<>>}

TypeFileContents == UNION {[1..n -> TypeLinePool] : n \in 0..MaxLines}

(* a caller holding two versions of a file of type declarations *)
InitClassifyTypes ==
    /\ ledger = [id \in Intents |-> "PENDING"]
    /\ trace = <<>>
    /\ traceFileExists = FALSE
    /\ git = "abc123"
    /\ preHooks = <<>>
    /\ postHooks = <<>>
    /\ inv = [i \in Invs |-> IdleInv]
    /\ locks = {}
    /\ calls = 0
    /\ \E before \in TypeFileContents, after \in TypeFileContents :
          lastOp = [op |-> "input", before |-> before, after |-> after, result |-> {}]

SpecClassifyTypes == InitClassifyTypes /\ [][NextClassify]_vars

(* ----------------------- TraceLogger.createFileTrace ------------------- *)
MaxLineNo == 4

(* the range of the returned entry; lineCount is after.split('\n').length, *)
(* startLine defaults to 1, and endLine || lines.length takes the line     *)
(* count for an endLine that is omitted or 0                               *)
createFileTrace(lineCount, startLine, endLine) ==
    LET start == IF startLine = Absent THEN 1 ELSE startLine[1]
        end   == IF endLine = Absent \/ endLine[1] = 0 THEN lineCount ELSE endLine[1]
    IN [startLine |-> start, endLine |-> end]

(* a caller with a file of at least one line and line numbers of its own  *)
InitFileTrace ==
    /\ ledger = [id \in Intents |-> "PENDING"]
    /\ trace = <<>>
    /\ traceFileExists = FALSE
    /\ git = "abc123"
    /\ preHooks = <<>>
    /\ postHooks = <<>>
    /\ inv = [i \in Invs |-> IdleInv]
    /\ locks = {}
    /\ calls = 0
    /\ \E lineCount \in 1..(MaxLines + 1),
          startLine \in {Absent} \cup {Some(n) : n \in 0..MaxLineNo},
          endLine \in {Absent} \cup {Some(n) : n \in 0..MaxLineNo} :
          lastOp = [op |-> "input", lineCount |-> lineCount, startLine |-> startLine,
                    endLine |-> endLine, range |-> [startLine |-> 0, endLine |-> 0]]

CreateFileTrace ==
    /\ lastOp.op = "input"
    /\ lastOp' = [lastOp EXCEPT !.op = "createFileTrace",
                                !.range = createFileTrace(lastOp.lineCount,
                                                          lastOp.startLine,
                                                          lastOp.endLine)]
    /\ UNCHANGED <<ledger, trace, traceFileExists, git, preHooks, postHooks, inv,
                   locks, calls>>

SpecFileTrace == InitFileTrace /\ [][CreateFileTrace]_vars

(* =============================== claims ================================ *)

Done(i) == inv[i].pc = "done"

Res(i) == inv[i].result[1]

Ev(i) == inv[i].event

(* the lines appended to the trace file since the invocation was entered *)
NewLines(i) == SubSeq(trace, Len(inv[i].trace0) + 1, Len(trace))

StatusAtCall(i) == NormStatus(inv[i].ledger0[Ev(i).intentId])

KnownIntent(i) == inv[i].pc # "idle" /\ Ev(i).intentId \in Intents

FailedWith(i, text) ==
    /\ Done(i)
    /\ Res(i).kind = "value"
    /\ ~Res(i).success
    /\ Res(i).reason.text = text

(* target is the directory of the pattern or lies beneath it *)
UnderPattern(target, pattern) ==
    LET dir == PathResolve(WorkspaceRoot, StripGlob(pattern))
    IN target = dir \/ StartsWith(target, dir \o <<"/">>)

OutsideOwnedScope(e) ==
    /\ e.payload.filePath # NoPath
    /\ \A k \in DOMAIN OwnedScope(e.intentId) :
          ~UnderPattern(PathResolve(WorkspaceRoot, e.payload.filePath),
                        OwnedScope(e.intentId)[k])

(* C1: an event naming a COMPLETED or LOCKED intent is answered with      *)
(* {success:false, reason}; the executor is never called, no registered   *)
(* pre-hook or post-hook runs and nothing is appended to the trace file.  *)
C1_TerminalIntentNeverReachesExecutor ==
    \A i \in Invs :
        (KnownIntent(i) /\ inv[i].ledger0[Ev(i).intentId] \in {"COMPLETED", "LOCKED"})
        => /\ inv[i].pc \in {"preToolUse", "done"}
           /\ inv[i].executorCalls = 0
           /\ inv[i].hooksRun = <<>>
           /\ trace = inv[i].trace0
           /\ Done(i) => /\ Res(i).kind = "value"
                         /\ ~Res(i).success
                         /\ Res(i).reason.text \in {"IntentCompleted", "IntentLocked"}

C1_Witness ==
    \E i \in Invs :
        /\ Done(i)
        /\ KnownIntent(i)
        /\ inv[i].ledger0[Ev(i).intentId] = "LOCKED"
        /\ FailedWith(i, "IntentLocked")
        /\ inv[i].hooks0.pre # <<>>
        /\ Ev(i).payload.filePath = PathAF

(* C2: an event whose target lies outside every owned_scope pattern of   *)
(* its workable intent is answered with reason "Scope violation", the     *)
(* executor is never called and the trace file is left exactly as it was  *)
(* before the call.                                                       *)
C2_OutOfScopeLeavesTraceUntouched ==
    \A i \in Invs :
        (KnownIntent(i)
         /\ StatusAtCall(i) \in {"PENDING", "IN_PROGRESS"}
         /\ OutsideOwnedScope(Ev(i)))
        => /\ inv[i].executorCalls = 0
           /\ trace = inv[i].trace0
           /\ Done(i) => FailedWith(i, "Scope violation")

(* C3 as claimed: transitionStatus succeeds, and sets the status, exactly *)
(* for PENDING->IN_PROGRESS, IN_PROGRESS->COMPLETED, IN_PROGRESS->LOCKED  *)
(* and LOCKED->IN_PROGRESS; every other pair is an illegal transition.    *)
ClaimedTable ==
    {<<"PENDING", "IN_PROGRESS">>, <<"IN_PROGRESS", "COMPLETED">>,
     <<"IN_PROGRESS", "LOCKED">>, <<"LOCKED", "IN_PROGRESS">>}

TransitionFollows(table) ==
    (lastOp.op = "transitionStatus" /\ lastOp.id \in Intents
     /\ lastOp.from \in VALID_STATUSES)
    => IF <<lastOp.from, lastOp.to>> \in table
       THEN lastOp.outcome = "ok" /\ ledger[lastOp.id] = lastOp.to
       ELSE lastOp.outcome = "IllegalTransition" /\ ledger = lastOp.before

StageOrder ==
    <<"context-load", "pre-hooks", "scope", "concurrency", "approval",
      "executor", "post-trace", "post-hooks">>

StageIdx(stage) == CHOOSE k \in DOMAIN StageOrder : StageOrder[k] = stage

DenyingStage(text) ==
    CASE text \in {"IntentNotFound", "IntentCompleted", "IntentLocked"} -> "context-load"
      [] text = "Pre-hook blocked execution"    -> "pre-hooks"
      [] text = "Scope violation"               -> "scope"
      [] text = "Concurrency conflict detected" -> "concurrency"
      [] text = "Human approval denied"         -> "approval"
      [] OTHER                                  -> "executor"

InConflict(i) ==
    \/ inv[i].context.lastSync # getCurrentGitSHA
    \/ (~inv[i].holdsLock /\ LockKey(Ev(i), inv[i].context) \in locks)

C5_PendingIntentBecomesInProgress ==
    \A i \in Invs :
        (KnownIntent(i)
         /\ inv[i].ledger0[Ev(i).intentId] = "PENDING"
         /\ inv[i].context.activeIntent # Absent)
        => ledger[Ev(i).intentId] = "IN_PROGRESS"

PassedAllStages(i) ==
    /\ Done(i)
    /\ Res(i).kind = "value"
    /\ Res(i).success
    /\ "executor" \in Range(inv[i].stages)
    /\ Ev(i).payload.filePath # NoPath

(* C6: an invocation that passes all stages with payload.filePath present *)
(* grows the trace file by exactly one line, the file-change entry of     *)
(* event.intentId and payload.filePath.                                   *)
C6_ExactlyOneFileChangeLine ==
    \A i \in Invs :
        PassedAllStages(i)
        => /\ Len(NewLines(i)) = 1
           /\ NewLines(i)[1].writer = "logFileChange"
           /\ NewLines(i)[1].intentId = Ev(i).intentId
           /\ NewLines(i)[1].files[1].relativePath = Ev(i).payload.filePath

FileChangeLines(i) ==
    {k \in DOMAIN NewLines(i) : NewLines(i)[k].writer = "logFileChange"}

(* C7: the file record appended by post-trace has mutationClasses equal   *)
(* to classifyMutation(before, after) when the payload carries both, and  *)
(* empty mutationClasses when either is absent.                           *)
C7_MutationClassesFromPayload ==
    \A i \in Invs : \A k \in FileChangeLines(i) :
        NewLines(i)[k].files[1].mutationClasses =
            IF Ev(i).payload.before # Absent /\ Ev(i).payload.after # Absent
            THEN classifyMutation(Ev(i).payload.before[1], Ev(i).payload.after[1])
            ELSE {}

PostHooksRun(i) == {k \in DOMAIN inv[i].hooksRun : inv[i].hooksRun[k][1] = "post"}

(* C8: when the executor throws, executeTool returns {success:false,      *)
(* reason: the exception message} and neither post-trace nor a registered *)
(* post-hook runs.                                                        *)
C8_ExecutorThrowSkipsPostStages ==
    \A i \in Invs :
        inv[i].executorThrew # Absent
        => /\ Done(i)
           /\ Res(i) = Value(FALSE, inv[i].executorThrew[1])
           /\ "post-trace" \notin Range(inv[i].stages)
           /\ "post-hooks" \notin Range(inv[i].stages)
           /\ PostHooksRun(i) = {}
           /\ FileChangeLines(i) = {}

C8_Witness ==
    \E i \in Invs :
        /\ Done(i)
        /\ inv[i].executorThrew # Absent
        /\ inv[i].hooks0.post # <<>>
        /\ Ev(i).payload.commandType = "destructive"

(* C9: when the executor throws, a diagnostic record of the attempted     *)
(* call is appended to the trace by the raw append before executeTool     *)
(* returns.                                                               *)
C9_ThrowAppendsDiagnostic ==
    \A i \in Invs :
        (Done(i) /\ inv[i].executorThrew # Absent)
        => \E k \in DOMAIN NewLines(i) : NewLines(i)[k].writer = "log"

(* C10: when the executor threw or returned success=false, no file-change *)
(* entry is appended and no registered post-hook is called.               *)
C10_PostStagesOnlyAfterSuccess ==
    \A i \in Invs :
        (inv[i].toolResult # Absent /\ ~inv[i].toolResult[1].success)
        => /\ FileChangeLines(i) = {}
           /\ PostHooksRun(i) = {}

Feedback(i) == inv[i].context.feedback

ExecutorReturned(i) == inv[i].toolResult # Absent /\ inv[i].executorThrew = Absent

ExecutorResult(i) ==
    Value(inv[i].toolResult[1].success, inv[i].toolResult[1].message)

(* the registered hooks of one kind that ran, in the order they ran *)
HooksRunOf(i, kind) ==
    LET IsKind(h) == h[1] = kind
    IN SelectSeq(inv[i].hooksRun, IsKind)

(* C11: once the executor has returned, every registered post-hook runs,  *)
(* in registration order, whether or not an earlier one threw; a throw is *)
(* recorded as feedback and executeTool returns the executor's result.    *)
C11_PostHookCannotChangeOutcome ==
    \A i \in Invs :
        (Done(i) /\ ExecutorReturned(i))
        => /\ Res(i) = ExecutorResult(i)
           /\ HooksRunOf(i, "post") =
                  [k \in 1..Len(inv[i].hooks0.post) |-> <<"post", k>>]
           /\ \A k \in DOMAIN inv[i].hooks0.post :
                 inv[i].hooks0.post[k] = "throw"
                 => \E f \in DOMAIN Feedback(i) : Feedback(i)[f].text = "post-hook error"

(* C12: executeTool never rejects; an invocation that ends before the     *)
(* executor, a throwing pre-hook included, hands the caller a value       *)
(* {success:false, reason}.                                               *)
C12_ExecuteToolNeverRejects ==
    \A i \in Invs :
        Done(i)
        => /\ Res(i).kind = "value"
           /\ "executor" \notin Range(inv[i].stages) => ~Res(i).success

Destructive(i) == Ev(i).payload.commandType = "destructive"

PassedConcurrencyGuard(i) ==
    /\ "concurrency" \in Range(inv[i].stages)
    /\ ~FailedWith(i, "Concurrency conflict detected")

(* C13: the approver is prompted, once, exactly when the event is         *)
(* destructive and context-load, every registered pre-hook, scope         *)
(* validation and the concurrency guard have allowed it; an answer other  *)
(* than Approve ends the invocation with "Human approval denied" and the  *)
(* executor is not called.                                                *)
C13_PromptOnlyForCheckedDestructive ==
    \A i \in Invs :
        LET st == inv[i].stages
        IN /\ inv[i].prompted <= 1
           /\ inv[i].prompted = 1 <=> ("approval" \in Range(st) /\ Destructive(i))
           /\ "approval" \in Range(st)
              => /\ {"context-load", "scope", "concurrency"} \subseteq Range(st)
                 /\ inv[i].context.activeIntent # Absent
                 /\ HooksRunOf(i, "pre") =
                        [k \in 1..Len(inv[i].hooks0.pre) |-> <<"pre", k>>]
                 /\ \A k \in DOMAIN inv[i].hooks0.pre : inv[i].hooks0.pre[k] = "allow"
                 /\ scopeValidator(Ev(i), inv[i].context)
                 /\ inv[i].context.lastSync = getCurrentGitSHA
                 /\ inv[i].holdsLock
           /\ (PassedConcurrencyGuard(i) /\ Destructive(i))
              => (inv[i].pc = "approval" \/ inv[i].prompted = 1)
           /\ (inv[i].answer # Absent /\ inv[i].answer # Some("Approve"))
              => /\ FailedWith(i, "Human approval denied")
                 /\ inv[i].executorCalls = 0
           /\ inv[i].answer = Some("Approve") => ~FailedWith(i, "Human approval denied")

C13_Witness ==
    \E i \in Invs :
        /\ inv[i].answer = Some("dismissed")
        /\ FailedWith(i, "Human approval denied")
        /\ inv[i].hooks0.pre # <<>>
        /\ inv[i].stages[Len(inv[i].stages)] = "approval"

ToolingFailed(i) ==
    \E f \in DOMAIN Feedback(i) : Feedback(i)[f].text = "PostToolUse error for"

(* C15: when the formatter or the linter fails in post-trace, the failure *)
(* becomes feedback, the file-change entry of the event is appended all   *)
(* the same and executeTool returns the executor's result.                *)
C15_ToolingFailureStillTraced ==
    \A i \in Invs :
        ToolingFailed(i)
        => /\ FileChangeLines(i) # {}
           /\ (Done(i) /\ inv[i].hooks0.post = <<>>) => Res(i) = ExecutorResult(i)

(* C14: two in-flight invocations never both hold the lock of one target  *)
(* path (so their executors never overlap on it), and a lock is held only *)
(* while its holder is in flight: once the holder has exited, by success  *)
(* or by failure, the path is free for a later invocation.                *)
Holds(i, p) == inv[i].holdsLock /\ LockKey(Ev(i), inv[i].context) = p

C14_PathLockHeldOnlyWhileInFlight ==
    /\ \A i, j \in Invs :
          (i # j /\ InFlight(i) /\ InFlight(j) /\ inv[i].holdsLock /\ inv[j].holdsLock)
          => LockKey(Ev(i), inv[i].context) # LockKey(Ev(j), inv[j].context)
    /\ \A p \in locks : \E i \in Invs : InFlight(i) /\ Holds(i, p)

(* C20: a registration appends its hook to the registry, so the registry  *)
(* holds the hooks in registration order; executeTool calls the pre-hooks *)
(* in that order and stops at the first that returns false, with reason   *)
(* "Pre-hook blocked execution": no later pre-hook and no executor runs.  *)
RegistryAppends ==
    /\ preHooks' # preHooks => \E h \in PreHookKinds : preHooks' = Append(preHooks, h)
    /\ postHooks' # postHooks => \E h \in PostHookKinds : postHooks' = Append(postHooks, h)

PreHooksInOrderUntilDenied ==
    \A i \in Invs :
        LET pre == inv[i].hooks0.pre
            ran == HooksRunOf(i, "pre")
            m   == Len(ran)
        IN /\ m <= Len(pre)
           /\ ran = [k \in 1..m |-> <<"pre", k>>]
           /\ \A k \in 1..(m - 1) : pre[k] = "allow"
           /\ (m > 0 /\ pre[m] = "deny")
              => /\ FailedWith(i, "Pre-hook blocked execution")
                 /\ inv[i].stages = <<"context-load", "pre-hooks">>
                 /\ inv[i].executorCalls = 0
           /\ "executor" \in Range(inv[i].stages)
              => (m = Len(pre) /\ \A k \in 1..m : pre[k] = "allow")

C20_HooksRunInRegistrationOrder ==
    [][RegistryAppends]_vars /\ []PreHooksInOrderUntilDenied

C20_Witness ==
    \E i \in Invs :
        /\ inv[i].hooks0.pre = <<"allow", "deny">>
        /\ HooksRunOf(i, "pre") = <<<<"pre", 1>>, <<"pre", 2>>>>
        /\ FailedWith(i, "Pre-hook blocked execution")

IsPrefix(a, b) == Len(a) <= Len(b) /\ SubSeq(b, 1, Len(a)) = a

(* C16: the trace file is append-only: whatever loggers are constructed   *)
(* and whatever is appended, the content before a step is a prefix of the *)
(* content after it, a constructor leaves an existing file as it is, and  *)
(* an append adds exactly one line.                                       *)
AppendOnly ==
    /\ IsPrefix(trace, trace')
    /\ Len(trace') <= Len(trace) + 1
    /\ traceFileExists => traceFileExists'
    /\ (lastOp' # lastOp /\ lastOp'.op = "new TraceLogger") => trace' = trace
    /\ (lastOp' # lastOp /\ lastOp'.op # "new TraceLogger") => Len(trace') = Len(trace) + 1

C16_TraceFileAppendOnly == [][AppendOnly]_vars

C16_Witness ==
    /\ lastOp.op = "new TraceLogger"
    /\ Len(trace) = 2
    /\ trace[1].writer = "log"
    /\ trace[2].writer = "logFileChange"

(* C18: every line of the trace file, whichever operation appended it,    *)
(* has the keys id, timestamp, vcs and files, and its vcs a revision_id.  *)
C18_EveryLineHasRequiredKeys ==
    \A k \in DOMAIN trace :
        /\ {"id", "timestamp", "vcs", "files"} \subseteq trace[k].keys
        /\ trace[k].vcs.revision_id # Absent

(* C19: every appended line carries a revision id: the caller's when the  *)
(* caller gave one to log(), otherwise the current revision, or "unknown" *)
(* when the revision cannot be had; the append itself always happens.     *)
SuppliedRevision(record) ==
    IF record.vcs # Absent THEN record.vcs[1].revision_id ELSE Absent

OracleRevision == IF git = GitUnavailable THEN "unknown" ELSE git

C19_RevisionIdAlwaysPresent ==
    (lastOp.op \in {"log", "logTrace", "logPrompt", "logFileChange"})
    => /\ trace # <<>>
       /\ LET line == trace[Len(trace)]
          IN /\ line.writer = lastOp.op
             /\ line.vcs.revision_id =
                    IF lastOp.op = "log" /\ SuppliedRevision(lastOp.arg) # Absent
                    THEN SuppliedRevision(lastOp.arg)
                    ELSE Some(OracleRevision)

(* ----------------------------------------------------------------------- *)
(* C21: every intent loadIntents returns has one of the four legal         *)
(* statuses: a legal status of the ledger is returned as it is, a missing  *)
(* or unrecognised one as PENDING; getWorkableIntents returns exactly the  *)
(* intents whose normalised status is PENDING or IN_PROGRESS, in ledger    *)
(* order; the intent a context-load put into the context carries the       *)
(* normalised status of the ledger it was loaded from.                     *)
(* ----------------------------------------------------------------------- *)
LegalStatuses == {"PENDING", "IN_PROGRESS", "COMPLETED", "LOCKED"}

Normalised(raw) == IF raw \in LegalStatuses THEN raw ELSE "PENDING"

WorkableIds(L) ==
    SelectSeq(LedgerOrder, LAMBDA id : Normalised(L[id]) \in {"PENDING", "IN_PROGRESS"})

C21_LoadedStatusLegalAndNormalised ==
    LET loaded   == loadIntents(ledger)
        workable == getWorkableIntents(ledger)
    IN /\ [k \in DOMAIN loaded |-> loaded[k].id] = LedgerOrder
       /\ \A k \in DOMAIN loaded :
             /\ loaded[k].status \in LegalStatuses
             /\ ledger[loaded[k].id] \in LegalStatuses
                   => loaded[k].status = ledger[loaded[k].id]
             /\ ledger[loaded[k].id] \notin LegalStatuses
                   => loaded[k].status = "PENDING"
       /\ [k \in DOMAIN workable |-> workable[k].id] = WorkableIds(ledger)
       /\ \A k \in DOMAIN workable :
             \E j \in DOMAIN loaded : workable[k] = loaded[j]
       /\ \A i \in Invs :
             inv[i].context.activeIntent # Absent
                => inv[i].context.activeIntent[1].status
                      = Normalised(inv[i].ledger0[Ev(i).intentId])

(* an intent with an unrecognised status was loaded as PENDING next to a   *)
(* COMPLETED one that is not workable                                      *)
C21_Witness ==
    \E i \in Invs :
        /\ Done(i)
        /\ Ev(i).intentId = "I1"
        /\ inv[i].ledger0["I1"] = "BOGUS"
        /\ ledger = inv[i].ledger0
        /\ ledger["I2"] = "COMPLETED"
        /\ inv[i].context.activeIntent # Absent
        /\ inv[i].context.activeIntent[1].status = "PENDING"
        /\ Len(getWorkableIntents(ledger)) = 1

(* ----------------------------------------------------------------------- *)
(* C22: for every ledger content, guardIntent either returns PENDING or    *)
(* IN_PROGRESS or fails (not found, COMPLETED, LOCKED), and the status it  *)
(* and getIntentStatus report for an intent is the normalised status the   *)
(* loader reports for the same intent.                                     *)
(* ----------------------------------------------------------------------- *)
StoreStatus(L, id) == loadIntent(L, id).intent.status

C22_GuardIntentReportsNormalisedStatus ==
    lastOp.op = "guardIntent"
       => /\ lastOp.outcome \in {"ok", "IntentNotFound", "IntentCompleted", "IntentLocked"}
          /\ lastOp.outcome = "ok" => lastOp.returned \in {"PENDING", "IN_PROGRESS"}
          /\ lastOp.id \in Intents
                => /\ getIntentStatus(lastOp.before, lastOp.id)
                         = StoreStatus(lastOp.before, lastOp.id)
                   /\ lastOp.outcome = "ok"
                         => lastOp.returned = StoreStatus(lastOp.before, lastOp.id)

(* ----------------------------------------------------------------------- *)
(* C23: a call naming an intent that is not in the ledger ends at the      *)
(* context-load with success = false, and its reason is the not-found      *)
(* error of loadIntent, which names the requested id and lists exactly     *)
(* the intents whose status is PENDING or IN_PROGRESS, each with that      *)
(* status and in ledger order: no COMPLETED or LOCKED intent, and no       *)
(* workable one left out.                                                  *)
(* ----------------------------------------------------------------------- *)
ListedIds(payload) == [k \in DOMAIN payload |-> payload[k][1]]

C23_NotFoundListsWorkableIds ==
    \A i \in Invs :
        (Done(i) /\ Ev(i).intentId \notin Intents)
           => LET L == inv[i].ledger0
              IN /\ Res(i).kind = "value"
                 /\ ~Res(i).success
                 /\ Res(i).reason.text = "IntentNotFound"
                 /\ Res(i).reason.args[1] = Ev(i).intentId
                 /\ ListedIds(Res(i).reason.args[2]) = WorkableIds(L)
                 /\ \A k \in DOMAIN Res(i).reason.args[2] :
                       /\ Res(i).reason.args[2][k][2] \in {"PENDING", "IN_PROGRESS"}
                       /\ Res(i).reason.args[2][k][2]
                             = Normalised(L[Res(i).reason.args[2][k][1]])
                 /\ \A id \in Intents :
                       Normalised(L[id]) \in {"COMPLETED", "LOCKED"}
                          => \A k \in DOMAIN Res(i).reason.args[2] :
                                Res(i).reason.args[2][k][1] # id
                 /\ inv[i].stages = <<"context-load">>
                 /\ inv[i].executorCalls = 0

(* an unknown intent was asked for while one intent was workable and the   *)
(* other COMPLETED: the reason lists the workable one only                 *)
C23_Witness ==
    \E i \in Invs :
        /\ Done(i)
        /\ Ev(i).intentId = UnknownId
        /\ inv[i].ledger0["I1"] = "IN_PROGRESS"
        /\ inv[i].ledger0["I2"] = "COMPLETED"
        /\ Res(i).reason.text = "IntentNotFound"
        /\ Res(i).reason.args[2] = << <<"I1", "IN_PROGRESS">> >>

(* ----------------------------------------------------------------------- *)
(* C24: every rejection of a COMPLETED or LOCKED intent, by guardIntent    *)
(* and as the reason executeTool returns, names the violated status and,   *)
(* whenever another intent is PENDING or IN_PROGRESS, lists the workable   *)
(* intent ids.                                                             *)
(* ----------------------------------------------------------------------- *)
NamesStatus(error, status) ==
    \/ status = "COMPLETED" /\ error.text = "IntentCompleted"
    \/ status = "LOCKED" /\ error.text = "IntentLocked"

GuidedRecovery(error, L, status) ==
    /\ NamesStatus(error, status)
    /\ WorkableIds(L) # <<>>
          => /\ Len(error.args) >= 2
             /\ \A k \in DOMAIN WorkableIds(L) :
                   \E j \in DOMAIN error.args[2] :
                      \/ error.args[2][j] = WorkableIds(L)[k]
                      \/ error.args[2][j] = <<WorkableIds(L)[k],
                                              Normalised(L[WorkableIds(L)[k]])>>

C24_TerminalRejectionListsAlternatives ==
    /\ \A i \in Invs :
          (Done(i) /\ KnownIntent(i) /\ StatusAtCall(i) \in {"COMPLETED", "LOCKED"})
             => /\ Res(i).kind = "value"
                /\ ~Res(i).success
                /\ GuidedRecovery(Res(i).reason, inv[i].ledger0, StatusAtCall(i))
                /\ LET g == guardIntent(inv[i].ledger0, Ev(i).intentId, LedgerOrder)
                   IN /\ ~g.ok
                      /\ GuidedRecovery(g.error, inv[i].ledger0, StatusAtCall(i))

(* ----------------------------------------------------------------------- *)
(* C25: COMPLETED is terminal: an intent whose ledger status is COMPLETED  *)
(* is still COMPLETED after every step, whether the step is an operation   *)
(* of the state machine (transitionStatus, markInProgress, markCompleted,  *)
(* lockIntent, selectActiveIntent) on any intent or a stage of a tool      *)
(* call.                                                                   *)
(* ----------------------------------------------------------------------- *)
CompletedStays ==
    \A id \in Intents : ledger[id] = "COMPLETED" => ledger'[id] = "COMPLETED"

C25_CompletedIsTerminal == [][CompletedStays]_vars

(* an intent was completed by markCompleted after a tool call on the other *)
(* one, COMPLETED before and since, had been turned down                   *)
C25_Witness ==
    /\ lastOp.op = "markCompleted"
    /\ lastOp.outcome = "ok"
    /\ \A id \in Intents : ledger[id] = "COMPLETED"
    /\ \E id \in Intents : id # lastOp.id /\ lastOp.before[id] = "COMPLETED"
    /\ \E i \in Invs :
          /\ Done(i)
          /\ Ev(i).intentId # lastOp.id
          /\ inv[i].ledger0[Ev(i).intentId] = "COMPLETED"
          /\ FailedWith(i, "IntentCompleted")

(* ----------------------------------------------------------------------- *)
(* C26: markInProgress leaves the ledger as it is when the intent already  *)
(* is IN_PROGRESS and otherwise performs the transition from PENDING:      *)
(* whenever it returns without error the intent is IN_PROGRESS, and on a   *)
(* COMPLETED or LOCKED intent it does not return normally.                 *)
(* ----------------------------------------------------------------------- *)
C26_MarkInProgressEndsInProgress ==
    (lastOp.op = "markInProgress" /\ lastOp.id \in Intents)
       => /\ lastOp.from = "IN_PROGRESS" => ledger = lastOp.before
          /\ lastOp.outcome = "ok" => ledger[lastOp.id] = "IN_PROGRESS"
          /\ lastOp.from \in {"COMPLETED", "LOCKED"} => lastOp.outcome # "ok"

(* ----------------------------------------------------------------------- *)
(* C27: an update of the ledger is one read-modify-write step on the       *)
(* ledger as the update before it left it: however the calls of the        *)
(* invocations are ordered, an update sets the status of its own intent    *)
(* and every other intent keeps the status it had, so the status another   *)
(* invocation has written is still there when both have finished.          *)
(* ----------------------------------------------------------------------- *)
TableWriters == {"transitionStatus", "markCompleted", "lockIntent"}

PendingWriters == {"markInProgress", "selectActiveIntent"}

LeadingPart(s, full, limit) ==
    /\ Len(s) = (IF Len(full) <= limit THEN Len(full) ELSE limit)
    /\ \A k \in 1..Len(s) : s[k] = full[k]

C28_ContextTruncatedToLeadingParts ==
    \A i \in Invs :
        inv[i].context.activeIntent # Absent
           => LET a  == inv[i].context.activeIntent[1]
                  id == Ev(i).intentId
              IN /\ a.id = id
                 /\ LeadingPart(a.owned_scope, OwnedScope(id), 10)
                 /\ LeadingPart(a.constraints, ConstraintKeys(id), 20)
                 /\ LeadingPart(a.acceptance_criteria, AcceptanceCriteria(id), 15)
                 /\ inv[i].context.allowedPaths = a.owned_scope
                 /\ Take(a.owned_scope, MAX_SCOPE_ENTRIES) = a.owned_scope
                 /\ Take(a.constraints, MAX_CONSTRAINTS) = a.constraints
                 /\ Take(a.acceptance_criteria, MAX_CRITERIA) = a.acceptance_criteria

(* the intent with 11 patterns, 21 constraints and 16 criteria was loaded  *)
(* and the call went on to its end                                         *)
C28_Witness ==
    \E i \in Invs :
        /\ Done(i)
        /\ Ev(i).intentId = "I2"
        /\ inv[i].context.activeIntent # Absent
        /\ Len(OwnedScope("I2")) = 11
        /\ Len(inv[i].context.activeIntent[1].owned_scope) = 10
        /\ Len(inv[i].context.activeIntent[1].constraints) = 20
        /\ Len(inv[i].context.activeIntent[1].acceptance_criteria) = 15
        /\ Len(inv[i].context.allowedPaths) = 10

(* ----------------------------------------------------------------------- *)
(* C29: classifyMutation returns a set of the 14 mutation classes; the     *)
(* set is empty exactly when no line was added and none removed (so for    *)
(* two equal contents), and it is {REFACTOR_BLOCK} exactly when the diff   *)
(* is not empty and no added or removed line matches any pattern;          *)
(* REFACTOR_BLOCK never comes with another class.                          *)
(* ----------------------------------------------------------------------- *)
Classified == lastOp.op = "classifyMutation"

Added == diffLines(lastOp.before, lastOp.after).added

Removed == diffLines(lastOp.before, lastOp.after).removed

MatchesFunction(l) == FunctionPat(l) \/ ArrowPat(l) \/ MethodPat(l)

MatchesSomePattern(l) ==
    \/ MatchesFunction(l)
    \/ ClassPat(l)
    \/ ImportPat(l)
    \/ ExportPat(l)
    \/ TypeAliasPat(l)
    \/ InterfacePat(l)

C29_EmptyAndRefactorOnly ==
    Classified
       => /\ lastOp.result \subseteq
                {"ADD_FUNCTION", "MODIFY_FUNCTION", "DELETE_FUNCTION",
                 "ADD_CLASS", "MODIFY_CLASS", "DELETE_CLASS",
                 "ADD_IMPORT", "MODIFY_IMPORT", "DELETE_IMPORT",
                 "ADD_EXPORT", "DELETE_EXPORT", "REFACTOR_BLOCK",
                 "ADD_TYPE", "MODIFY_TYPE"}
          /\ lastOp.result = {} <=> (Added = {} /\ Removed = {})
          /\ lastOp.before = lastOp.after => lastOp.result = {}
          /\ lastOp.result = {"REFACTOR_BLOCK"}
                <=> /\ Added \cup Removed # {}
                    /\ \A l \in Added \cup Removed : ~MatchesSomePattern(l)
          /\ "REFACTOR_BLOCK" \in lastOp.result => lastOp.result = {"REFACTOR_BLOCK"}

(* a plain statement was deleted, leaving a blank line, under a class that  *)
(* stayed as it was: only the statement shows in the diff                  *)
C29_Witness ==
    /\ Classified
    /\ lastOp.before = << <<"class", "id", "{">>, <<"let", "id", "=", "num">> >>
    /\ lastOp.after = << <<"class", "id", "{">>, <<>> >>
    /\ lastOp.result = {"REFACTOR_BLOCK"}

(* ----------------------------------------------------------------------- *)
(* C30: for each of FUNCTION, CLASS and IMPORT the result never holds      *)
(* both the ADD and the DELETE class: it holds the MODIFY class exactly    *)
(* when an added line and a removed line both match the category, the ADD  *)
(* class exactly when only added lines match, and the DELETE class exactly *)
(* when only removed lines match.                                          *)
(* ----------------------------------------------------------------------- *)
Categories == {"FUNCTION", "CLASS", "IMPORT"}

MatchesCategory(l, X) ==
    CASE X = "FUNCTION" -> MatchesFunction(l)
      [] X = "CLASS"    -> ClassPat(l)
      [] X = "IMPORT"   -> ImportPat(l)

ClassOf(verb, X) ==
    CASE X = "FUNCTION" -> (CASE verb = "ADD"    -> "ADD_FUNCTION"
                              [] verb = "DELETE" -> "DELETE_FUNCTION"
                              [] verb = "MODIFY" -> "MODIFY_FUNCTION")
      [] X = "CLASS"    -> (CASE verb = "ADD"    -> "ADD_CLASS"
                              [] verb = "DELETE" -> "DELETE_CLASS"
                              [] verb = "MODIFY" -> "MODIFY_CLASS")
      [] X = "IMPORT"   -> (CASE verb = "ADD"    -> "ADD_IMPORT"
                              [] verb = "DELETE" -> "DELETE_IMPORT"
                              [] verb = "MODIFY" -> "MODIFY_IMPORT")

C30_AddAndDeleteBecomeModify ==
    Classified
       => \A X \in Categories :
             LET inAdded   == \E l \in Added : MatchesCategory(l, X)
                 inRemoved == \E l \in Removed : MatchesCategory(l, X)
             IN /\ ~(ClassOf("ADD", X) \in lastOp.result
                       /\ ClassOf("DELETE", X) \in lastOp.result)
                /\ ClassOf("MODIFY", X) \in lastOp.result <=> (inAdded /\ inRemoved)
                /\ ClassOf("ADD", X) \in lastOp.result <=> (inAdded /\ ~inRemoved)
                /\ ClassOf("DELETE", X) \in lastOp.result <=> (inRemoved /\ ~inAdded)

(* a class and an import were rewritten and a function was added *)
C30_Witness ==
    /\ Classified
    /\ lastOp.before = << <<"class", "id", "{">>, <<"import", "id", "from", "str">> >>
    /\ {"MODIFY_CLASS", "MODIFY_IMPORT"} \subseteq lastOp.result
    /\ \E l \in Added : MatchesCategory(l, "CLASS") /\ ExportPat(l)
    /\ "ADD_EXPORT" \in lastOp.result

(* ----------------------------------------------------------------------- *)
(* C31: type and interface changes collapse like the other categories:     *)
(* when the diff both adds and removes a type-alias or interface line the  *)
(* result holds MODIFY_TYPE and not ADD_TYPE; when it only adds such       *)
(* lines the result holds ADD_TYPE and not MODIFY_TYPE.                    *)
(* ----------------------------------------------------------------------- *)
MatchesType(l) == TypeAliasPat(l) \/ InterfacePat(l)

C31_TypeChangesCollapseToModify ==
    Classified
       => LET inAdded   == \E l \in Added : MatchesType(l)
              inRemoved == \E l \in Removed : MatchesType(l)
          IN /\ (inAdded /\ inRemoved)
                   => /\ "MODIFY_TYPE" \in lastOp.result
                      /\ "ADD_TYPE" \notin lastOp.result
             /\ (inAdded /\ ~inRemoved)
                   => /\ "ADD_TYPE" \in lastOp.result
                      /\ "MODIFY_TYPE" \notin lastOp.result

(* ----------------------------------------------------------------------- *)
(* C32: no tool body runs without the scope check: wherever a tool is      *)
(* executed, the executor is invoked only after scope validation has run   *)
(* and allowed the event's target, which lies within the owned scope of    *)
(* the event's intent.                                                     *)
(* ----------------------------------------------------------------------- *)
StageBefore(i, first, second) ==
    \E j, k \in DOMAIN inv[i].stages :
        j < k /\ inv[i].stages[j] = first /\ inv[i].stages[k] = second

C32_NoToolWithoutScopeCheck ==
    \A i \in Invs :
        inv[i].executorCalls > 0
           => /\ StageBefore(i, "scope", "executor")
              /\ Ev(i).payload.filePath # NoPath
              /\ ~OutsideOwnedScope(Ev(i))

(* ----------------------------------------------------------------------- *)
(* C33: an invocation cancelled before the executor is called returns      *)
(* {success:false, reason:"cancelled"}, its executor is not called and no  *)
(* trace line is written after the cancellation; one cancelled after the   *)
(* executor returned still runs post-trace and appends the file-change     *)
(* entry.                                                                  *)
(* ----------------------------------------------------------------------- *)
CancelledInv == lastOp.inv

C33_CancellationShortCircuits ==
    (lastOp.op = "cancel" /\ Done(CancelledInv))
       => /\ lastOp.executorCalls = 0
                => /\ Res(CancelledInv) = Value(FALSE, Err("cancelled", <<>>))
                   /\ inv[CancelledInv].executorCalls = 0
                   /\ trace = lastOp.trace
          /\ (lastOp.pc = "postToolUse" /\ ExecutorReturned(CancelledInv))
                => /\ "post-trace" \in Range(inv[CancelledInv].stages)
                   /\ Len(trace) > Len(lastOp.trace)

(* ----------------------------------------------------------------------- *)
(* C34: scope validation allows a target exactly when, after resolving     *)
(* payload.filePath against the workspace root, the target is the          *)
(* directory of some allowedPaths pattern (trailing /** stripped) or lies  *)
(* beneath it on a path-segment boundary; a target in a sibling directory  *)
(* whose name starts with the name of the scope directory is rejected.     *)
(* ----------------------------------------------------------------------- *)
ScopeRan(i) == "scope" \in Range(inv[i].stages)

WithinAllowedPaths(i) ==
    /\ Ev(i).payload.filePath # NoPath
    /\ \E k \in DOMAIN inv[i].context.allowedPaths :
          UnderPattern(PathResolve(WorkspaceRoot, Ev(i).payload.filePath),
                       inv[i].context.allowedPaths[k])

C34_ScopeAllowsOnSegmentBoundary ==
    \A i \in Invs :
        ScopeRan(i)
           => (~FailedWith(i, "Scope violation") <=> WithinAllowedPaths(i))

(* ----------------------------------------------------------------------- *)
(* C35 as claimed: an event without payload.filePath is always answered    *)
(* with reason "Scope violation", with no "Scope violation:" feedback, and *)
(* never reaches the concurrency guard, the approval gate or the executor. *)
(* ----------------------------------------------------------------------- *)
NoTarget(i) == inv[i].pc # "idle" /\ Ev(i).payload.filePath = NoPath

NoScopeFeedback(i) ==
    \A f \in DOMAIN Feedback(i) :
        Feedback(i)[f].text # "Scope violation: Agent attempted to modify"

StoppedByScopeStage(i) ==
    /\ Range(inv[i].stages) \cap {"concurrency", "approval", "executor",
                                  "post-trace", "post-hooks"} = {}
    /\ inv[i].executorCalls = 0
    /\ inv[i].prompted = 0
    /\ ~inv[i].holdsLock

FirstPatterns(id) ==
    [k \in 1..(IF Len(OwnedScope(id)) <= 10 THEN Len(OwnedScope(id)) ELSE 10)
        |-> OwnedScope(id)[k]]

CoveredBy(i, patterns) ==
    \E k \in DOMAIN patterns :
        UnderPattern(PathResolve(WorkspaceRoot, Ev(i).payload.filePath), patterns[k])

C36_ScopeDecidedOnLoadedPatterns ==
    \A i \in Invs :
        ScopeRan(i)
           => /\ inv[i].context.allowedPaths = FirstPatterns(Ev(i).intentId)
              /\ ~FailedWith(i, "Scope violation")
                    <=> scopeValidator(Ev(i), [FreshContext(getCurrentGitSHA) EXCEPT
                                                  !.allowedPaths =
                                                      FirstPatterns(Ev(i).intentId)])
              /\ (CoveredBy(i, OwnedScope(Ev(i).intentId))
                    /\ ~CoveredBy(i, FirstPatterns(Ev(i).intentId)))
                    => FailedWith(i, "Scope violation")
              /\ (Ev(i).payload.filePath = PathUF /\ Ev(i).intentId = "I1")
                    => FailedWith(i, "Scope violation")

(* a target under the 11th pattern of its intent was turned down although  *)
(* the caller had put that very directory into allowedPaths                *)
C36_Witness ==
    \E i \in Invs :
        /\ Done(i)
        /\ Ev(i).intentId = "I2"
        /\ Ev(i).payload.filePath = PathAF
        /\ OwnedScope("I2")[11] = GlobA
        /\ CoveredBy(i, <<GlobA>>)
        /\ Len(inv[i].context.allowedPaths) = 10
        /\ FailedWith(i, "Scope violation")
        /\ \E f \in DOMAIN Feedback(i) :
              Feedback(i)[f].text = "Scope violation: Agent attempted to modify"

(* ----------------------------------------------------------------------- *)
(* C37: the range of every file record createFileTrace produces has        *)
(* startLine >= 1 and endLine >= startLine, whatever the arguments: a      *)
(* startLine beyond the lines of the content, an omitted endLine, an       *)
(* endLine of 0.                                                           *)
(* ----------------------------------------------------------------------- *)
C37_RangeWithinOrder ==
    lastOp.op = "createFileTrace"
       => /\ lastOp.range.startLine >= 1
          /\ lastOp.range.endLine >= lastOp.range.startLine

(* ----------------------------------------------------------------------- *)
(* C38: classifyMutation depends only on the sets of trimmed non-empty     *)
(* lines of its inputs: its result is the result for the two contents      *)
(* written out one line each, without surrounding whitespace, blank lines  *)
(* or repetitions, so reordering or repeating lines, adding blank lines    *)
(* or changing indentation changes nothing; two contents with the same     *)
(* set of lines classify as the empty set.                                 *)
(* ----------------------------------------------------------------------- *)
StripEnds(l) ==
    LET solid == {k \in DOMAIN l : l[k] # "ws"}
    IN IF solid = {} THEN <<>>
       ELSE SubSeq(l, CHOOSE k \in solid : \A j \in solid : k <= j,
                      CHOOSE k \in solid : \A j \in solid : k >= j)

BareLines(content) == {StripEnds(content[k]) : k \in DOMAIN content} \ {<<>>}

RECURSIVE WrittenOut(_)
WrittenOut(S) ==
    IF S = {} THEN <<>>
    ELSE LET l == CHOOSE x \in S : TRUE IN <<l>> \o WrittenOut(S \ {l})

C38_DependsOnLineSetsOnly ==
    Classified
       => /\ lastOp.result = classifyMutation(WrittenOut(BareLines(lastOp.before)),
                                              WrittenOut(BareLines(lastOp.after)))
          /\ BareLines(lastOp.before) = BareLines(lastOp.after) => lastOp.result = {}

(* the two lines of a file were swapped, one of them indented, nothing     *)
(* else: no class is reported                                              *)
C38_Witness ==
    /\ Classified
    /\ lastOp.before = << <<"let", "id", "=", "num">>, <<"class", "id", "{">> >>
    /\ lastOp.after = << <<"class", "id", "{">>, <<"ws", "let", "id", "=", "num", "ws">> >>
    /\ lastOp.result = {}

(* ----------------------------------------------------------------------- *)
(* C39: a transitionStatus call that fails, for an unknown intent id or    *)
(* an illegal transition, leaves the ledger exactly as it was; a call      *)
(* that succeeds changes the status of the named intent and nothing else.  *)
(* ----------------------------------------------------------------------- *)
C39_TransitionStatusFrame ==
    lastOp.op = "transitionStatus"
       => /\ lastOp.outcome \in {"ok", "NotFound", "IllegalTransition", "TypeError"}
          /\ lastOp.id \notin Intents => lastOp.outcome = "NotFound"
          /\ lastOp.outcome # "ok" => ledger = lastOp.before
          /\ lastOp.outcome = "ok"
                => /\ ledger[lastOp.id] = lastOp.to
                   /\ \A id \in Intents \ {lastOp.id} : ledger[id] = lastOp.before[id]

(* an intent in progress was locked next to a COMPLETED one, which stayed  *)
(* COMPLETED                                                               *)
C39_Witness ==
    /\ lastOp.op = "transitionStatus"
    /\ lastOp.outcome = "ok"
    /\ lastOp.id = "I1"
    /\ lastOp.to = "LOCKED"
    /\ lastOp.before = [id \in Intents |-> IF id = "I1" THEN "IN_PROGRESS" ELSE "COMPLETED"]
    /\ ledger = [id \in Intents |-> IF id = "I1" THEN "LOCKED" ELSE "COMPLETED"]

(* ----------------------------------------------------------------------- *)
(* C40: selectActiveIntent on a workable intent returns an intent whose    *)
(* status is the status the ledger holds for it when the call returns:     *)
(* after the automatic PENDING -> IN_PROGRESS transition the returned      *)
(* intent reports IN_PROGRESS.                                             *)
(* ----------------------------------------------------------------------- *)
C40_ReturnedStatusIsLedgerStatus ==
    ( /\ lastOp.op = "selectActiveIntent"
      /\ lastOp.outcome = "ok"
      /\ lastOp.before[lastOp.id] \in {"PENDING", "IN_PROGRESS"} )
       => lastOp.returned = ledger[lastOp.id]

====
